---- MODULE Spec2Model ----
(***************************************************************************)
(* ddb2es-serverless: one invocation of the stream handler.                *)
(*                                                                         *)
(* handle() validates the incoming batch, folds buildRequest over its      *)
(* records, submits the assembled bulk body through the retry driver and   *)
(* dispatches the before/after/error/recordError hooks.                    *)
(*                                                                         *)
(* JavaScript values are tagged records: [type |-> "number", n |-> 1],     *)
(* [type |-> "string", s |-> "a"], [type |-> "object", fields |-> f], ...  *)
(* Wire (marshalled) attribute values are [N |-> "1"] and [S |-> "a"].     *)
(***************************************************************************)
EXTENDS Integers, Sequences, FiniteSets, TLC

VARIABLES
  options,              \* handler options (fixed at construction)
  event,                \* the incoming batch
  pc,                   \* position of handle()
  idx,                  \* number of records consumed by the reduce of buildRequest
  acc,                  \* accumulator of buildRequest: [actions, meta]
  failed,               \* positions of the records whose try block threw
  bulkCalls,            \* argument of every esclient.bulk call, in call order
  inflight,             \* bulk calls issued and not yet settled
  failures,             \* bulk calls settled with a rejection
  esResult,             \* resolution value of the successful bulk call
  caught,               \* error caught by the try/catch of handle()
  outcome,              \* settlement of the promise returned by handle()
  raised,               \* every error raised during the invocation, in order
  beforeHookCalls,      \* arguments of every beforeHook call
  transformCalls,       \* arguments of every transformRecordHook call
  recordErrorHookCalls, \* arguments of every recordErrorHook call
  afterHookCalls,       \* arguments of every afterHook call
  errorHookCalls,       \* arguments of every errorHook call
  hookReturn,           \* last value returned by afterHook / errorHook
  pair,                 \* two interleaved invocations of one handler, when modelled
  transformReturns,     \* outcome of every transformRecordHook call, in call order
  wrapper               \* the exported function: how it was called, what it delivered

vars == << options, event, pc, idx, acc, failed, bulkCalls, inflight, failures,
           esResult, caught, outcome, raised, beforeHookCalls, transformCalls,
           recordErrorHookCalls, afterHookCalls, errorHookCalls, hookReturn, pair,
           transformReturns, wrapper >>

----------------------------------------------------------------------------
(* Bounds of the model *)

MaxRecords == 2

MaxRetries == 1

\* records per batch when two invocations are interleaved
PairMaxRecords == 2

----------------------------------------------------------------------------
(* JavaScript values *)

Undefined == [type |-> "undefined"]

Null == [type |-> "null"]

Num(n) == [type |-> "number", n |-> n]

Str(s) == [type |-> "string", s |-> s]

Bool(b) == [type |-> "boolean", b |-> b]

Obj(f) == [type |-> "object", fields |-> f]

EmptyMap == [k \in {} |-> Undefined]

Truthy(v) ==
  CASE v.type = "undefined" -> FALSE
    [] v.type = "null"      -> FALSE
    [] v.type = "number"    -> v.n # 0
    [] v.type = "string"    -> v.s # ""
    [] v.type = "boolean"   -> v.b
    [] OTHER                -> TRUE

JsToString(v) ==
  CASE v.type = "number"  -> ToString(v.n)
    [] v.type = "string"  -> v.s
    [] v.type = "boolean" -> IF v.b THEN "true" ELSE "false"
    [] OTHER              -> v.type

\* Array.prototype.join writes undefined and null as the empty string
JoinElement(v) ==
  IF v.type \in {"undefined", "null"} THEN "" ELSE JsToString(v)

RECURSIVE Join(_, _)
Join(values, separator) ==
  IF Len(values) = 0 THEN ""
  ELSE IF Len(values) = 1 THEN JoinElement(values[1])
  ELSE JoinElement(values[1]) \o separator \o Join(Tail(values), separator)

Merge(a, b) ==
  [k \in DOMAIN a \cup DOMAIN b |-> IF k \in DOMAIN b THEN b[k] ELSE a[k]]

Context == [awsRequestId |-> "req-1"]

----------------------------------------------------------------------------
(* Results of operations that may throw *)

Ok(v) == [ok |-> TRUE, value |-> v]

Throw(e) == [ok |-> FALSE, error |-> e]

----------------------------------------------------------------------------
(* Errors *)

ValidationError(label) == [name |-> "ValidationError", label |-> label]

FieldNotFoundError(parsedRecord, path) ==
  [name |-> "FieldNotFoundError", record |-> parsedRecord, path |-> path]

\* an error that keeps the event name only
UnknownEventNameError_NameOnly(record) ==
  [name    |-> "UnknownEventNameError",
   message |-> "\"" \o record.eventName \o "\" is an unknown event name",
   details |-> [eventName |-> record.eventName]]

UnknownEventNameError(record) ==
  [name    |-> "UnknownEventNameError",
   message |-> "\"" \o record.eventName \o "\" is an unknown event name",
   details |-> record]

HookError(hook) == [name |-> "Error", thrownBy |-> hook]

\* reading a property of null or undefined
TypeError(thrownBy) == [name |-> "TypeError", thrownBy |-> thrownBy]

ResponseError(attempt) == [name |-> "ResponseError", attempt |-> attempt]

\* a thrown error is a fresh object: oid is its identity
WithOid(e, n) == Merge(e, [oid |-> n])

----------------------------------------------------------------------------
(* utils *)

\* the defaults validate() passes to schema.validate
ValidateDefaults == [abortEarly |-> FALSE, allowUnknown |-> FALSE, convert |-> FALSE]

\* the fields the EVENT schema names
EventFields == {"Records"}

RecordFields == {"eventName", "eventSource", "dynamodb"}

ImageBundleFields == {"Keys", "NewImage", "OldImage"}

\* the EVENT schema: Records is a list of objects with a string eventName and
\* a dynamodb object holding Keys; other fields pass under allowUnknown only
EventSchemaValid(ev, o) ==
  /\ "Records" \in DOMAIN ev
  /\ o.allowUnknown \/ DOMAIN ev \subseteq EventFields
  /\ \A i \in 1..Len(ev.Records) :
       /\ {"eventName", "dynamodb"} \subseteq DOMAIN ev.Records[i]
       /\ o.allowUnknown \/ DOMAIN ev.Records[i] \subseteq RecordFields
       /\ "Keys" \in DOMAIN ev.Records[i].dynamodb
       /\ o.allowUnknown \/ DOMAIN ev.Records[i].dynamodb \subseteq ImageBundleFields

\* the VERSION schema: a number; a numeric string passes under convert only
VersionSchemaValid(v, o) ==
  \/ v.type = "number"
  \/ o.convert /\ v.type = "string" /\ v.s \in {"0", "1", "2", "3", "4"}

validate(value, schemaValid, label) ==
  IF schemaValid THEN Ok(value) ELSE Throw(ValidationError(label))

ParseNumber(s) ==
  CASE s = "0" -> 0
    [] s = "1" -> 1
    [] s = "2" -> 2
    [] s = "3" -> 3
    [] s = "4" -> 4
    [] s = "5" -> 5
    [] s = "6" -> 6
    [] s = "7" -> 7
    [] s = "8" -> 8
    [] OTHER   -> 9

RECURSIVE unmarshall(_)
unmarshall(attr) ==
  CASE "N" \in DOMAIN attr    -> Num(ParseNumber(attr.N))
    [] "S" \in DOMAIN attr    -> Str(attr.S)
    [] "BOOL" \in DOMAIN attr -> Bool(attr.BOOL)
    [] "M" \in DOMAIN attr    -> Obj([k \in DOMAIN attr.M |-> unmarshall(attr.M[k])])
    [] OTHER                  -> Null

unmarshallMap(m) == Obj([k \in DOMAIN m |-> unmarshall(m[k])])

\* a decoding that leaves an image the record lacks undefined
parseRecord_Absent(record) ==
  [NewImage |-> IF "NewImage" \in DOMAIN record.dynamodb
                THEN unmarshallMap(record.dynamodb.NewImage) ELSE Undefined,
   OldImage |-> IF "OldImage" \in DOMAIN record.dynamodb
                THEN unmarshallMap(record.dynamodb.OldImage) ELSE Undefined,
   Keys     |-> unmarshallMap(record.dynamodb.Keys)]

parseRecord(record) ==
  [NewImage |-> unmarshallMap(IF "NewImage" \in DOMAIN record.dynamodb
                              THEN record.dynamodb.NewImage ELSE EmptyMap),
   OldImage |-> unmarshallMap(IF "OldImage" \in DOMAIN record.dynamodb
                              THEN record.dynamodb.OldImage ELSE EmptyMap),
   Keys     |-> unmarshallMap(record.dynamodb.Keys)]

\* stringToPath, for the dotted paths in use
PathSegments(path) ==
  CASE path = "b.c" -> << "b", "c" >>
    [] path = "b.x" -> << "b", "x" >>
    [] path = "id.c" -> << "id", "c" >>
    [] OTHER        -> << path >>

RECURSIVE baseGet(_, _)
baseGet(value, segments) ==
  IF Len(segments) = 0 THEN value
  ELSE IF value.type = "object" /\ Head(segments) \in DOMAIN value.fields
       THEN baseGet(value.fields[Head(segments)], Tail(segments))
       ELSE Undefined

\* lodash get: a key of the object itself wins over the dotted reading
castPath(path, object) ==
  IF path \in DOMAIN object.fields THEN << path >> ELSE PathSegments(path)

\* get of a value that is no object is undefined
get(entry, path) ==
  IF entry.type = "object" THEN baseGet(entry, castPath(path, entry)) ELSE Undefined

RECURSIVE baseSet(_, _, _)
baseSet(object, segments, value) ==
  IF Len(segments) = 1
  THEN Obj(Merge(object.fields, Head(segments) :> value))
  ELSE Obj(Merge(object.fields,
                 Head(segments) :>
                   baseSet(IF Head(segments) \in DOMAIN object.fields
                              /\ object.fields[Head(segments)].type = "object"
                           THEN object.fields[Head(segments)]
                           ELSE Obj(EmptyMap),
                           Tail(segments), value)))

RECURSIVE basePick(_, _, _)
basePick(object, paths, result) ==
  IF Len(paths) = 0 THEN result
  ELSE basePick(object, Tail(paths),
                IF get(object, Head(paths)) # Undefined
                THEN baseSet(result, castPath(Head(paths), object),
                             get(object, Head(paths)))
                ELSE result)

\* a projection that keeps the whole object
pick_Whole(object, paths) == object

\* lodash pick(object, paths)
pick(object, paths) ==
  basePick(object,
           IF "list" \in DOMAIN paths THEN paths.list ELSE << paths.path >>,
           Obj(EmptyMap))

\* a reducer that looks further when the value found so far is null
FirstDefined_NullSkipped(accum, found) ==
  IF accum = Undefined \/ accum = Null THEN found ELSE accum

\* the reducer of getField: keep the first defined value
FirstDefined(accum, found) == IF accum = Undefined THEN found ELSE accum

FoundOrThrow(value, parsedRecord, path) ==
  IF value = Undefined
  THEN Throw(FieldNotFoundError(parsedRecord, path))
  ELSE Ok(value)

getField(parsedRecord, path) ==
  FoundOrThrow(
    FirstDefined(FirstDefined(get(parsedRecord.Keys, path),
                              get(parsedRecord.NewImage, path)),
                 get(parsedRecord.OldImage, path)),
    parsedRecord, path)

\* an array of paths is [list |-> <<p1, ...>>], a single path is [path |-> p]
PathList(ps) == [list |-> ps]

SinglePath(p) == [path |-> p]

\* a single path whose value is turned into a string as well
assembleField_Coerced(parsedRecord, paths, separator) ==
  IF "list" \in DOMAIN paths
  THEN LET ps      == paths.list
           results == [i \in 1..Len(ps) |-> getField(parsedRecord, ps[i])]
           missing  == {i \in 1..Len(ps) : ~results[i].ok}
       IN  IF missing # {}
           THEN results[CHOOSE i \in missing : \A j \in missing : i <= j]
           ELSE Ok(Str(Join([i \in 1..Len(ps) |-> results[i].value], separator)))
  ELSE IF "path" \in DOMAIN paths
       THEN IF getField(parsedRecord, paths.path).ok
            THEN Ok(Str(JsToString(getField(parsedRecord, paths.path).value)))
            ELSE getField(parsedRecord, paths.path)
       ELSE Throw(FieldNotFoundError(parsedRecord, paths))

assembleField(parsedRecord, paths, separator) ==
  IF "list" \in DOMAIN paths
  THEN LET ps      == paths.list
           results == [i \in 1..Len(ps) |-> getField(parsedRecord, ps[i])]
           missing  == {i \in 1..Len(ps) : ~results[i].ok}
       IN  IF missing # {}
           THEN results[CHOOSE i \in missing : \A j \in missing : i <= j]
           ELSE Ok(Str(Join([i \in 1..Len(ps) |-> results[i].value], separator)))
  ELSE IF "path" \in DOMAIN paths
       THEN getField(parsedRecord, paths.path)
       ELSE Throw(FieldNotFoundError(parsedRecord, paths))

\* Object.keys: the field names in insertion order
FieldOrder == << "id", "sk", "ver", "t", "x", "y" >>

RECURSIVE SelectKeys(_, _)
SelectKeys(order, names) ==
  IF Len(order) = 0 THEN << >>
  ELSE IF Head(order) \in names
       THEN << Head(order) >> \o SelectKeys(Tail(order), names)
       ELSE SelectKeys(Tail(order), names)

\* the field names in the reverse of their insertion order
ObjectKeys_Reversed(obj) ==
  LET ks == SelectKeys(FieldOrder, DOMAIN obj.fields)
  IN  [i \in 1..Len(ks) |-> ks[Len(ks) + 1 - i]]

ObjectKeys(obj) == SelectKeys(FieldOrder, DOMAIN obj.fields)

----------------------------------------------------------------------------
(* build-request *)

Unset == Undefined

IsSet(opt) == opt # Unset

\* options.pickFields ? pick(parsedRecord.NewImage, options.pickFields) : NewImage
PickedDoc(parsedRecord, opts) ==
  IF IsSet(opts.pickFields)
  THEN pick(parsedRecord.NewImage, opts.pickFields)
  ELSE parsedRecord.NewImage

\* a document that is never replaced by the outcome of the hook
buildDoc_HookIgnored(parsedRecord, opts, transformOut) ==
  Ok(PickedDoc(parsedRecord, opts))

\* transformOut is the outcome of the transformRecordHook call, if one is made
buildDoc(parsedRecord, opts, transformOut) ==
  IF opts.transformRecordHook THEN transformOut ELSE Ok(PickedDoc(parsedRecord, opts))

\* the resolver function a configuration can carry: FieldOf(p) is doc => doc[p]
FieldOf(p) == [fn |-> "field", path |-> p]

\* resolver(doc, parsedRecord.OldImage)
CallResolver(resolver, doc, oldImage) ==
  IF doc.type = "object" THEN Ok(get(doc, resolver.path))
  ELSE Throw(TypeError("resolver"))

\* the resolver is called with the document buildDoc returned
ResolveWith(resolver, docResult, oldImage) ==
  IF docResult.ok THEN CallResolver(resolver, docResult.value, oldImage) ELSE docResult

\* the ids made of the names of the key fields instead of their values
DefaultId_KeyNames(parsedRecord, separator) ==
  Ok(Str(Join([i \in 1..Len(ObjectKeys(parsedRecord.Keys)) |->
                 Str(ObjectKeys(parsedRecord.Keys)[i])], separator)))

\* assembleField(parsedRecord, Object.keys(parsedRecord.Keys), separator)
DefaultId(parsedRecord, separator) ==
  assembleField(parsedRecord, PathList(ObjectKeys(parsedRecord.Keys)), separator)

\* options.idResolver || (() => options.idField ? assembleField(idField) : default)
ResolveId(parsedRecord, opts, separator, docResult) ==
  IF IsSet(opts.idResolver)
  THEN ResolveWith(opts.idResolver, docResult, parsedRecord.OldImage)
  ELSE IF IsSet(opts.idField)
       THEN assembleField(parsedRecord, opts.idField, separator)
       ELSE DefaultId(parsedRecord, separator)

\* an index name that leaves the prefix out
PrefixIndex_NoPrefix(indexPrefix, assembled) ==
  IF assembled.ok
  THEN Ok(Str(JsToString(assembled.value)))
  ELSE assembled

\* `${indexPrefix}${assembled}`
PrefixIndex(indexPrefix, assembled) ==
  IF assembled.ok
  THEN Ok(Str(indexPrefix \o JsToString(assembled.value)))
  ELSE assembled

\* options.index || `${indexPrefix}${assembleField(indexField)}`
ResolveIndex(parsedRecord, opts, separator, indexPrefix) ==
  IF IsSet(opts.index) /\ Truthy(opts.index)
  THEN Ok(opts.index)
  ELSE PrefixIndex(indexPrefix, assembleField(parsedRecord, opts.indexField, separator))

\* options.type || (options.typeField && assembleField(typeField))
ResolveType(parsedRecord, opts, separator) ==
  IF IsSet(opts.type) /\ Truthy(opts.type)
  THEN Ok(opts.type)
  ELSE IF IsSet(opts.typeField)
       THEN assembleField(parsedRecord, opts.typeField, separator)
       ELSE Ok(Undefined)

ResolveParent(parsedRecord, opts) ==
  IF IsSet(opts.parentField)
  THEN getField(parsedRecord, opts.parentField.path)
  ELSE Ok(Undefined)

\* a version that is taken as resolved, without validation
ValidateVersion_Skip(resolved, label) == resolved

\* validate(version, VERSION.label(options.versionField || 'resolved version'))
ValidateVersion(resolved, label) ==
  IF resolved.ok
  THEN validate(resolved.value, VersionSchemaValid(resolved.value, ValidateDefaults), label)
  ELSE resolved

VersionLabel(opts) ==
  IF IsSet(opts.versionField) THEN opts.versionField.path ELSE "resolved version"

\* options.versionResolver ? versionResolver(doc, OldImage) : getField(versionField)
ResolveVersion(parsedRecord, opts, docResult) ==
  IF IsSet(opts.versionResolver)
  THEN ValidateVersion(ResolveWith(opts.versionResolver, docResult, parsedRecord.OldImage),
                       VersionLabel(opts))
  ELSE IF IsSet(opts.versionField)
       THEN ValidateVersion(getField(parsedRecord, opts.versionField.path),
                            VersionLabel(opts))
       ELSE Ok(Undefined)

\* a descriptor that keeps a blank _type
WithType_KeepBlank(desc, type) ==
  IF type # Undefined THEN Merge(desc, [_type |-> type]) ELSE desc

\* Omit blank _type
WithType(desc, type) ==
  IF Truthy(type) THEN Merge(desc, [_type |-> type]) ELSE desc

WithParent(desc, opts, parent) ==
  IF IsSet(opts.parentField) THEN Merge(desc, [parent |-> parent]) ELSE desc

\* a version set only when it is truthy
WithVersion_Truthy(desc, opts, version) ==
  IF (IsSet(opts.versionResolver) \/ IsSet(opts.versionField)) /\ Truthy(version)
  THEN Merge(desc, [version |-> version, versionType |-> Str("external")])
  ELSE desc

WithVersion(desc, opts, version) ==
  IF IsSet(opts.versionResolver) \/ IsSet(opts.versionField)
  THEN Merge(desc, [version |-> version, versionType |-> Str("external")])
  ELSE desc

\* the first failure in evaluation order, or the value built from the parts
FirstFailure(results, value) ==
  IF \E i \in 1..Len(results) : ~results[i].ok
  THEN results[CHOOSE i \in 1..Len(results) :
                 /\ ~results[i].ok
                 /\ \A j \in 1..(i - 1) : results[j].ok]
  ELSE Ok(value)

DescriptorFrom(opts, parts) ==
  WithVersion(
    WithParent(
      WithType([_index |-> parts[3].value, _id |-> parts[2].value], parts[4].value),
      opts, parts[5].value),
    opts, parts[6].value)

BuiltFrom(opts, parts) ==
  FirstFailure(parts, [doc |-> parts[1].value, action |-> DescriptorFrom(opts, parts)])

buildAction(parsedRecord, opts, transformOut) ==
  BuiltFrom(opts,
    << buildDoc(parsedRecord, opts, transformOut),
       ResolveId(parsedRecord, opts,
                 IF IsSet(opts.separator) THEN opts.separator.s ELSE ".",
                 buildDoc(parsedRecord, opts, transformOut)),
       ResolveIndex(parsedRecord, opts,
                    IF IsSet(opts.separator) THEN opts.separator.s ELSE ".",
                    IF IsSet(opts.indexPrefix) THEN opts.indexPrefix.s ELSE ""),
       ResolveType(parsedRecord, opts,
                   IF IsSet(opts.separator) THEN opts.separator.s ELSE "."),
       ResolveParent(parsedRecord, opts),
       ResolveVersion(parsedRecord, opts,
                      buildDoc(parsedRecord, opts, transformOut)) >>)

\* a metadata event that keeps the marshalled images
MetaEvent_Raw(record, parsedRecord) == record

\* the metadata event: the record with the decoded images merged into dynamodb
MetaEvent(record, parsedRecord) ==
  [record EXCEPT !.dynamodb = Merge(record.dynamodb, parsedRecord)]

\* a delete descriptor that keeps the resolved version
IncrementVersion_Keep(desc) == desc

\* REMOVE: actionDescriptionObj.version++
IncrementVersion(desc) ==
  IF "version" \in DOMAIN desc
  THEN [desc EXCEPT !.version = Num(desc.version.n + 1)]
  ELSE desc

\* the try block of the reducer of buildRequest, for one record:
\*   [kind |-> "emit", actions, meta] | [kind |-> "skip"] | [kind |-> "throw", error]
MapRecord(record, opts, transformOut) ==
  LET parsedRecord == parseRecord(record)
      built        == buildAction(parsedRecord, opts, transformOut)
  IN  IF ~built.ok THEN [kind |-> "throw", error |-> built.error]
      ELSE IF ~Truthy(built.value.doc) THEN [kind |-> "skip"]
      ELSE LET doc  == built.value.doc
               desc == built.value.action
               ev   == MetaEvent(record, parsedRecord)
           IN  IF record.eventName \in {"INSERT", "MODIFY"}
               THEN LET action == [index |-> desc]
                    IN  [kind    |-> "emit",
                         actions |-> << action, doc >>,
                         meta    |-> [event |-> ev, action |-> action, document |-> doc]]
               ELSE IF record.eventName = "REMOVE"
               THEN LET action == [delete |-> IncrementVersion(desc)]
                    IN  [kind    |-> "emit",
                         actions |-> << action >>,
                         meta    |-> [event |-> ev, action |-> action, document |-> doc]]
               ELSE [kind |-> "throw", error |-> UnknownEventNameError(record)]

\* unshift instead of push: new entries go to the front
Push_Unshift(list, items) == items \o list

\* acc.actions.push(...) / acc.meta.push(...)
Push(list, items) == list \o items

----------------------------------------------------------------------------
(* Inputs: handler options and incoming batches *)

DEFAULT_RETRY_COUNT == 0

\* retryOptions is undefined or an object with a retries count
RetryOptionsSet == {Undefined} \cup {[retries |-> n] : n \in 0..MaxRetries}

\* each hook entry says whether the hook is configured; what a configured
\* hook does is chosen when it is called
OptionsSet ==
  [beforeHook          : BOOLEAN,
   afterHook           : BOOLEAN,
   errorHook           : BOOLEAN,
   recordErrorHook     : BOOLEAN,
   transformRecordHook : BOOLEAN,
   versionField        : {Unset, SinglePath("ver")},
   retryOptions        : RetryOptionsSet,
   bulk                : {[refresh |-> TRUE]},
   index               : {Str("index")},
   indexField          : {Unset},
   indexPrefix         : {Unset},
   idField             : {Unset},
   idResolver          : {Unset},
   versionResolver     : {Unset},
   type                : {Unset},
   typeField           : {Unset},
   parentField         : {Unset},
   separator           : {Unset},
   pickFields          : {Unset}]

WireN(n) == [N |-> ToString(n)]

WireS(str) == [S |-> str]

RecordKinds == {"INSERT", "MODIFY_STR_VER", "REMOVE", "UNKNOWN_NO_VER"}

\* the record at position i of a batch; its key and eventID are i
RawRecord(kind, i) ==
  LET keys  == [id |-> WireN(i)]
      base  == [eventID |-> i, eventSource |-> "aws:dynamodb"]
      view  == "NEW_AND_OLD_IMAGES"
      full  == [id |-> WireN(i), ver |-> WireN(1)]
      nover == [id |-> WireN(i)]
      strv  == [id |-> WireN(i), ver |-> WireS("1")]
  IN  CASE kind = "INSERT" ->
             Merge(base, [eventName |-> "INSERT",
                          dynamodb  |-> [Keys |-> keys, StreamViewType |-> view, NewImage |-> full]])
        [] kind = "MODIFY_STR_VER" ->
             Merge(base, [eventName |-> "MODIFY",
                          dynamodb  |-> [Keys |-> keys, StreamViewType |-> view, NewImage |-> strv,
                                         OldImage |-> full]])
        [] kind = "REMOVE" ->
             Merge(base, [eventName |-> "REMOVE",
                          dynamodb  |-> [Keys |-> keys, StreamViewType |-> view, OldImage |-> full]])
        [] kind = "UNKNOWN_NO_VER" ->
             Merge(base, [eventName |-> "TRUNCATE",
                          dynamodb  |-> [Keys |-> keys, StreamViewType |-> view, NewImage |-> nover]])
        [] OTHER ->
             Merge(base, [dynamodb |-> [Keys |-> keys, StreamViewType |-> view, NewImage |-> full]])

\* batches of well-formed records
ValidBatches ==
  UNION { { [i \in 1..n |-> RawRecord(kinds[i], i)] : kinds \in [1..n -> RecordKinds] }
          : n \in 0..MaxRecords }

\* batches whose last record lacks eventName
InvalidBatches ==
  { [i \in 1..n |-> RawRecord(IF i = n THEN "NO_EVENT_NAME" ELSE "INSERT", i)]
    : n \in 1..MaxRecords }

Batches == ValidBatches \cup InvalidBatches

EventSet == { [Records |-> recs, awsRegion |-> "r"] : recs \in Batches }

\* values a resolved bulk call can carry
List(items) == [type |-> "array", items |-> items]

EsResults ==
  { Obj([took |-> Num(7), errors |-> Bool(TRUE), items |-> List(<< Str("conflict") >>)]) }

\* values afterHook / errorHook can return
AfterHookReturns == {Undefined, Null, Num(0), Bool(FALSE), Str("after")}

ErrorHookReturns == {Str("recovered")}

----------------------------------------------------------------------------
(* index: the handler *)

EmptyResult ==
  Obj([took |-> Num(0), errors |-> Bool(FALSE), items |-> List(<< >>)])

Pending == [kind |-> "pending"]

Resolved(v) == [kind |-> "resolved", value |-> v]

Rejected(e) == [kind |-> "rejected", error |-> e]

NoError == [name |-> "none"]

NoReturn == [hook |-> "none"]

\* a single invocation is modelled
NoPair == [runs |-> << >>]

\* the exported function called without a callback: it returns the promise of
\* handle() and has no callback to call
PromiseMode ==
  [mode |-> "promise", returned |-> "promise", chain |-> "none",
   reason |-> NoError, callbackCalls |-> << >>]

Retries(opts) ==
  IF "retries" \in DOMAIN opts.retryOptions
  THEN opts.retryOptions.retries
  ELSE DEFAULT_RETRY_COUNT

Init ==
  /\ options \in OptionsSet
  /\ event \in EventSet
  /\ pc = "start"
  /\ idx = 0
  /\ acc = [actions |-> << >>, meta |-> << >>]
  /\ failed = << >>
  /\ bulkCalls = << >>
  /\ inflight = 0
  /\ failures = 0
  /\ esResult = Undefined
  /\ caught = NoError
  /\ outcome = Pending
  /\ raised = << >>
  /\ beforeHookCalls = << >>
  /\ transformCalls = << >>
  /\ recordErrorHookCalls = << >>
  /\ afterHookCalls = << >>
  /\ errorHookCalls = << >>
  /\ hookReturn = NoReturn
  /\ pair = NoPair
  /\ transformReturns = << >>
  /\ wrapper = PromiseMode

\* throw e inside the try block of handle(): control moves to the catch clause
ThrowToCatch(e) ==
  /\ raised' = Append(raised, e)
  /\ caught' = e
  /\ pc' = "catch"

NewError(e) == WithOid(e, Len(raised) + 1)

\* a beforeHook called ahead of the try block: its error leaves handle() at once
BeforeHook_OutsideTry ==
  /\ pc = "start"
  /\ IF options.beforeHook
     THEN /\ beforeHookCalls' = Append(beforeHookCalls, << event, Context >>)
          /\ \/ /\ pc' = "validate"
                /\ UNCHANGED << raised, caught, outcome >>
             \/ /\ raised' = Append(raised, NewError(HookError("beforeHook")))
                /\ outcome' = Rejected(NewError(HookError("beforeHook")))
                /\ pc' = "done"
                /\ UNCHANGED caught
     ELSE /\ pc' = "validate"
          /\ UNCHANGED << beforeHookCalls, raised, caught, outcome >>
  /\ UNCHANGED << wrapper, transformReturns, pair, options, event, idx, acc, failed, bulkCalls, inflight, failures, esResult,
                  transformCalls, recordErrorHookCalls, afterHookCalls,
                  errorHookCalls, hookReturn >>

\* if (options.beforeHook) options.beforeHook(event, context)
BeforeHook ==
  /\ pc = "start"
  /\ IF options.beforeHook
     THEN /\ beforeHookCalls' = Append(beforeHookCalls, << event, Context >>)
          /\ \/ /\ pc' = "validate"
                /\ UNCHANGED << raised, caught >>
             \/ ThrowToCatch(NewError(HookError("beforeHook")))
     ELSE /\ pc' = "validate"
          /\ UNCHANGED << beforeHookCalls, raised, caught >>
  /\ UNCHANGED << wrapper, transformReturns, pair, options, event, idx, acc, failed, bulkCalls, inflight, failures, esResult,
                  outcome, transformCalls, recordErrorHookCalls, afterHookCalls,
                  errorHookCalls, hookReturn >>

\* validation options that reject the fields the schema does not name
EventValidateOptions_Strict == [allowUnknown |-> FALSE]

\* { allowUnknown: true }
EventValidateOptions == [allowUnknown |-> TRUE]

\* a validation that runs as the first statement, ahead of the beforeHook call
ValidateEvent_First ==
  /\ pc \in {"start", "validate"}
  /\ LET r == validate(event,
                      EventSchemaValid(event, Merge(ValidateDefaults, EventValidateOptions)),
                      "event")
     IN  IF r.ok
         THEN /\ pc' = "build"
              /\ UNCHANGED << raised, caught >>
         ELSE ThrowToCatch(NewError(r.error))
  /\ UNCHANGED << wrapper, transformReturns, pair, options, event, idx, acc, failed, bulkCalls, inflight, failures, esResult,
                  outcome, beforeHookCalls, transformCalls, recordErrorHookCalls,
                  afterHookCalls, errorHookCalls, hookReturn >>

\* validate(event, EVENT, { allowUnknown: true })
ValidateEvent ==
  /\ pc = "validate"
  /\ LET r == validate(event,
                      EventSchemaValid(event, Merge(ValidateDefaults, EventValidateOptions)),
                      "event")
     IN  IF r.ok
         THEN /\ pc' = "build"
              /\ UNCHANGED << raised, caught >>
         ELSE ThrowToCatch(NewError(r.error))
  /\ UNCHANGED << wrapper, transformReturns, pair, options, event, idx, acc, failed, bulkCalls, inflight, failures, esResult,
                  outcome, beforeHookCalls, transformCalls, recordErrorHookCalls,
                  afterHookCalls, errorHookCalls, hookReturn >>

\* a catch clause with the else missing: the hook is called and the error rethrown
OnRecordError_HookThenThrow(e) ==
  /\ failed' = Append(failed, idx + 1)
  /\ idx' = idx + 1
  /\ recordErrorHookCalls' =
       IF options.recordErrorHook
       THEN Append(recordErrorHookCalls, << event, Context, e >>)
       ELSE recordErrorHookCalls
  /\ raised' = Append(raised, e)
  /\ caught' = e
  /\ pc' = "catch"

\* a catch clause that drops the error when recordErrorHook is not configured
OnRecordError_Swallow(e) ==
  /\ failed' = Append(failed, idx + 1)
  /\ idx' = idx + 1
  /\ recordErrorHookCalls' =
       IF options.recordErrorHook
       THEN Append(recordErrorHookCalls, << event, Context, e >>)
       ELSE recordErrorHookCalls
  /\ raised' = Append(raised, e)
  /\ pc' = "build"
  /\ UNCHANGED caught

\* the catch clause of the reducer of buildRequest
OnRecordError(e) ==
  /\ failed' = Append(failed, idx + 1)
  /\ idx' = idx + 1
  /\ IF options.recordErrorHook
     THEN /\ recordErrorHookCalls' =
               Append(recordErrorHookCalls, << event, Context, e >>)
          /\ \/ /\ raised' = Append(raised, e)
                /\ pc' = "build"
                /\ UNCHANGED caught
             \/ LET h == WithOid(HookError("recordErrorHook"), Len(raised) + 2)
                IN  /\ raised' = raised \o << e, h >>
                    /\ caught' = h
                    /\ pc' = "catch"
     ELSE /\ raised' = Append(raised, e)
          /\ caught' = e
          /\ pc' = "catch"
          /\ UNCHANGED recordErrorHookCalls

\* outcomes of a transformRecordHook(doc, OldImage) call
\* a document a hook returns: the one it received with fields of its own
Transformed(doc) ==
  Obj(Merge(doc.fields, [sk |-> Str("h"), ver |-> Num(3)]))

TransformOutcomes(doc) ==
  {Ok(Transformed(doc)), Ok(Null), Throw(HookError("transformRecordHook"))}

\* a reducer that writes the decoded images into the record it was given
ProcessRecord_InPlace ==
  /\ pc = "build"
  /\ idx < Len(event.Records)
  /\ LET record       == event.Records[idx + 1]
         parsedRecord == parseRecord(record)
     IN  /\ transformCalls' =
              IF options.transformRecordHook
              THEN Append(transformCalls,
                          << PickedDoc(parsedRecord, options), parsedRecord.OldImage >>)
              ELSE transformCalls
         /\ \E transformOut \in TransformOutcomes(PickedDoc(parsedRecord, options)) :
              LET m == MapRecord(record, options, transformOut)
              IN  /\ transformReturns' =
                       IF options.transformRecordHook
                       THEN Append(transformReturns, transformOut)
                       ELSE transformReturns
                  /\ CASE m.kind = "emit" ->
                         /\ acc' = [actions |-> Push(acc.actions, m.actions),
                                    meta    |-> Push(acc.meta, << m.meta >>)]
                         /\ idx' = idx + 1
                         /\ event' = [event EXCEPT !.Records[idx + 1] = m.meta.event]
                         /\ UNCHANGED << pc, failed, raised, caught,
                                         recordErrorHookCalls >>
                    [] m.kind = "skip" ->
                         /\ idx' = idx + 1
                         /\ UNCHANGED << pc, acc, failed, raised, caught,
                                         recordErrorHookCalls, event >>
                    [] OTHER ->
                         /\ OnRecordError(NewError(m.error))
                         /\ UNCHANGED << acc, event >>
  /\ UNCHANGED << wrapper, pair, options, bulkCalls, inflight, failures, esResult, outcome,
                  beforeHookCalls, afterHookCalls, errorHookCalls, hookReturn >>

\* one iteration of event.Records.reduce(...) in buildRequest
ProcessRecord ==
  /\ pc = "build"
  /\ idx < Len(event.Records)
  /\ LET record       == event.Records[idx + 1]
         parsedRecord == parseRecord(record)
     IN  /\ transformCalls' =
              IF options.transformRecordHook
              THEN Append(transformCalls,
                          << PickedDoc(parsedRecord, options), parsedRecord.OldImage >>)
              ELSE transformCalls
         /\ \E transformOut \in TransformOutcomes(PickedDoc(parsedRecord, options)) :
              LET m == MapRecord(record, options, transformOut)
              IN  /\ transformReturns' =
                       IF options.transformRecordHook
                       THEN Append(transformReturns, transformOut)
                       ELSE transformReturns
                  /\ CASE m.kind = "emit" ->
                         /\ acc' = [actions |-> Push(acc.actions, m.actions),
                                    meta    |-> Push(acc.meta, << m.meta >>)]
                         /\ idx' = idx + 1
                         /\ UNCHANGED << pc, failed, raised, caught,
                                         recordErrorHookCalls >>
                    [] m.kind = "skip" ->
                         /\ idx' = idx + 1
                         /\ UNCHANGED << pc, acc, failed, raised, caught,
                                         recordErrorHookCalls >>
                    [] OTHER ->
                         /\ OnRecordError(NewError(m.error))
                         /\ UNCHANGED acc
  /\ UNCHANGED << wrapper, pair, options, event, bulkCalls, inflight, failures, esResult, outcome,
                  beforeHookCalls, afterHookCalls, errorHookCalls, hookReturn >>

\* the emptiness test with the comparison turned around
IsEmptyBatch_WrongComparison(parsedEvent) == Len(parsedEvent.actions) < 0

\* if (parsedEvent.actions.length === 0)
IsEmptyBatch(parsedEvent) == Len(parsedEvent.actions) = 0

\* buildRequest has returned: short-circuit an empty batch, else go on to submit
BuildDone ==
  /\ pc = "build"
  /\ idx = Len(event.Records)
  /\ IF IsEmptyBatch(acc)
     THEN /\ outcome' = Resolved(EmptyResult)
          /\ pc' = "done"
     ELSE /\ pc' = "submit"
          /\ UNCHANGED outcome
  /\ UNCHANGED << wrapper, transformReturns, pair, options, event, idx, acc, failed, bulkCalls, inflight, failures, esResult,
                  caught, raised, beforeHookCalls, transformCalls,
                  recordErrorHookCalls, afterHookCalls, errorHookCalls, hookReturn >>

\* bulk: bulkOpts = {}
BulkOpts(opts) == IF IsSet(opts.bulk) THEN opts.bulk ELSE EmptyMap

\* the caller's options spread after the body
BulkArgs_OptionsLast(bulkOpts, actions) == Merge([body |-> actions], bulkOpts)

\* { ...bulkOpts, body: parsedEvent.actions }
BulkArgs(bulkOpts, actions) == Merge(bulkOpts, [body |-> actions])

\* a retry driver that starts the next attempt without awaiting the previous one
CanIssueAttempt_NoAwait ==
  \/ pc = "submit"
  \/ (pc = "inflight" /\ Len(bulkCalls) <= Retries(options))

\* the retry driver runs the operation again only once the previous run has settled
CanIssueAttempt == pc = "submit"

\* a retry driver that counts retries from zero
ShouldRetry_OffByOne(attemptsMade, retries) == attemptsMade <= retries + 1

\* the retry driver: after a failed attempt, run again while retries are left
ShouldRetry(attemptsMade, retries) == attemptsMade <= retries

\* esclient.bulk({ ...bulkOpts, body: parsedEvent.actions }), one attempt
BulkCall ==
  /\ CanIssueAttempt
  /\ bulkCalls' = Append(bulkCalls, BulkArgs(BulkOpts(options), acc.actions))
  /\ inflight' = inflight + 1
  /\ pc' = "inflight"
  /\ UNCHANGED << wrapper, transformReturns, pair, options, event, idx, acc, failed, failures, esResult, caught, outcome,
                  raised, beforeHookCalls, transformCalls, recordErrorHookCalls,
                  afterHookCalls, errorHookCalls, hookReturn >>

\* the attempt resolves: .then(result => ({ result, meta: parsedEvent.meta }))
BulkResolve ==
  /\ pc = "inflight"
  /\ inflight > 0
  /\ \E r \in EsResults : esResult' = r
  /\ inflight' = inflight - 1
  /\ pc' = "after"
  /\ UNCHANGED << wrapper, transformReturns, pair, options, event, idx, acc, failed, bulkCalls, failures, caught, outcome,
                  raised, beforeHookCalls, transformCalls, recordErrorHookCalls,
                  afterHookCalls, errorHookCalls, hookReturn >>

\* a retry that wraps buildRequest as well: a failed attempt assembles the batch anew
BulkReject_Reassemble ==
  /\ pc = "inflight"
  /\ inflight > 0
  /\ inflight' = inflight - 1
  /\ failures' = failures + 1
  /\ LET e == NewError(ResponseError(Len(bulkCalls)))
     IN  IF ShouldRetry(Len(bulkCalls), Retries(options))
         THEN /\ raised' = Append(raised, e)
              /\ pc' = "build"
              /\ idx' = 0
              /\ acc' = [actions |-> << >>, meta |-> << >>]
              /\ UNCHANGED caught
         ELSE /\ ThrowToCatch(e)
              /\ UNCHANGED << idx, acc >>
  /\ UNCHANGED << wrapper, transformReturns, pair, options, event, failed, bulkCalls, esResult, outcome,
                  beforeHookCalls, transformCalls, recordErrorHookCalls,
                  afterHookCalls, errorHookCalls, hookReturn >>

\* the attempt rejects: the retry driver retries or rejects with this error
BulkReject ==
  /\ pc = "inflight"
  /\ inflight > 0
  /\ inflight' = inflight - 1
  /\ failures' = failures + 1
  /\ LET e == NewError(ResponseError(Len(bulkCalls)))
     IN  IF ShouldRetry(Len(bulkCalls), Retries(options))
         THEN /\ raised' = Append(raised, e)
              /\ pc' = "submit"
              /\ UNCHANGED caught
         ELSE ThrowToCatch(e)
  /\ UNCHANGED << wrapper, transformReturns, pair, options, event, idx, acc, failed, bulkCalls, esResult, outcome,
                  beforeHookCalls, transformCalls, recordErrorHookCalls,
                  afterHookCalls, errorHookCalls, hookReturn >>

\* a truthiness test in place of the comparison with undefined
AfterHookResult_Truthy(hookResult, result) ==
  IF Truthy(hookResult) THEN hookResult ELSE result

\* return hookResult !== undefined ? hookResult : result.result
AfterHookResult(hookResult, result) ==
  IF hookResult # Undefined THEN hookResult ELSE result

\* the submission succeeded: afterHook, then return
AfterHook ==
  /\ pc = "after"
  /\ IF options.afterHook
     THEN /\ afterHookCalls' =
               Append(afterHookCalls, << event, Context, esResult, acc.meta >>)
          /\ \/ \E v \in AfterHookReturns :
                  /\ hookReturn' = [hook |-> "afterHook", value |-> v]
                  /\ outcome' = Resolved(AfterHookResult(v, esResult))
                  /\ pc' = "done"
                  /\ UNCHANGED << raised, caught >>
             \/ /\ ThrowToCatch(NewError(HookError("afterHook")))
                /\ UNCHANGED << hookReturn, outcome >>
             \/ /\ pc' = "awaitAfter"
                /\ UNCHANGED << hookReturn, outcome, raised, caught >>
     ELSE /\ outcome' = Resolved(esResult)
          /\ pc' = "done"
          /\ UNCHANGED << afterHookCalls, hookReturn, raised, caught >>
  /\ UNCHANGED << wrapper, transformReturns, pair, options, event, idx, acc, failed, bulkCalls, inflight, failures, esResult,
                  beforeHookCalls, transformCalls, recordErrorHookCalls,
                  errorHookCalls >>

\* an await that drops the rejection of the promise afterHook returned
AwaitAfterHook_RejectionLost ==
  /\ pc = "awaitAfter"
  /\ \/ \E v \in AfterHookReturns :
          /\ hookReturn' = [hook |-> "afterHook", value |-> v]
          /\ outcome' = Resolved(AfterHookResult(v, esResult))
          /\ UNCHANGED raised
     \/ /\ raised' = Append(raised, NewError(HookError("afterHook")))
        /\ outcome' = Resolved(esResult)
        /\ UNCHANGED hookReturn
  /\ pc' = "done"
  /\ UNCHANGED << wrapper, transformReturns, pair, options, event, idx, acc, failed, bulkCalls, inflight, failures, esResult,
                  caught, beforeHookCalls, transformCalls, recordErrorHookCalls,
                  afterHookCalls, errorHookCalls >>

\* const hookResult = await options.afterHook(...): the promise afterHook
\* returned settles
AwaitAfterHook ==
  /\ pc = "awaitAfter"
  /\ \/ \E v \in AfterHookReturns :
          /\ hookReturn' = [hook |-> "afterHook", value |-> v]
          /\ outcome' = Resolved(AfterHookResult(v, esResult))
          /\ pc' = "done"
          /\ UNCHANGED << raised, caught >>
     \/ /\ ThrowToCatch(NewError(HookError("afterHook")))
        /\ UNCHANGED << hookReturn, outcome >>
  /\ UNCHANGED << wrapper, transformReturns, pair, options, event, idx, acc, failed, bulkCalls, inflight, failures, esResult,
                  beforeHookCalls, transformCalls, recordErrorHookCalls,
                  afterHookCalls, errorHookCalls >>

\* a catch clause that hands the error to errorHook and rethrows it as well
Catch_HookAndRethrow ==
  /\ pc = "catch"
  /\ errorHookCalls' =
       IF options.errorHook
       THEN Append(errorHookCalls, << event, Context, caught >>)
       ELSE errorHookCalls
  /\ outcome' = Rejected(caught)
  /\ pc' = "done"
  /\ UNCHANGED << wrapper, transformReturns, pair, options, event, idx, acc, failed, bulkCalls, inflight, failures,
                  esResult, caught, raised, beforeHookCalls, transformCalls,
                  recordErrorHookCalls, afterHookCalls, hookReturn >>

\* a catch clause that rethrows without consulting errorHook
Catch_AlwaysRethrow ==
  /\ pc = "catch"
  /\ outcome' = Rejected(caught)
  /\ pc' = "done"
  /\ UNCHANGED << wrapper, transformReturns, pair, options, event, idx, acc, failed, bulkCalls, inflight, failures,
                  esResult, caught, raised, beforeHookCalls, transformCalls,
                  recordErrorHookCalls, afterHookCalls, errorHookCalls, hookReturn >>

\* catch (err): return options.errorHook(event, context, err), else throw err
Catch ==
  /\ pc = "catch"
  /\ IF options.errorHook
     THEN /\ errorHookCalls' = Append(errorHookCalls, << event, Context, caught >>)
          /\ \/ \E v \in ErrorHookReturns :
                  /\ hookReturn' = [hook |-> "errorHook", value |-> v]
                  /\ outcome' = Resolved(v)
                  /\ UNCHANGED raised
                  /\ pc' = "done"
             \/ LET h == NewError(HookError("errorHook"))
                IN  /\ raised' = Append(raised, h)
                    /\ outcome' = Rejected(h)
                    /\ pc' = "done"
                    /\ UNCHANGED hookReturn
             \/ /\ pc' = "awaitError"
                /\ UNCHANGED << hookReturn, outcome, raised >>
     ELSE /\ outcome' = Rejected(caught)
          /\ pc' = "done"
          /\ UNCHANGED << errorHookCalls, hookReturn, raised >>
  /\ UNCHANGED << wrapper, transformReturns, pair, options, event, idx, acc, failed, bulkCalls, inflight, failures, esResult,
                  caught, beforeHookCalls, transformCalls, recordErrorHookCalls,
                  afterHookCalls >>

\* return options.errorHook(event, context, err) in an async function: the
\* invocation settles as the promise errorHook returned settles
AwaitErrorHook ==
  /\ pc = "awaitError"
  /\ \/ \E v \in ErrorHookReturns :
          /\ hookReturn' = [hook |-> "errorHook", value |-> v]
          /\ outcome' = Resolved(v)
          /\ UNCHANGED raised
     \/ LET h == NewError(HookError("errorHook"))
        IN  /\ raised' = Append(raised, h)
            /\ outcome' = Rejected(h)
            /\ UNCHANGED hookReturn
  /\ pc' = "done"
  /\ UNCHANGED << wrapper, transformReturns, pair, options, event, idx, acc, failed, bulkCalls, inflight, failures, esResult,
                  caught, beforeHookCalls, transformCalls, recordErrorHookCalls,
                  afterHookCalls, errorHookCalls >>

\* the steps of an invocation whose hooks return no promises
NextSync ==
  \/ BeforeHook
  \/ ValidateEvent
  \/ ProcessRecord
  \/ BuildDone
  \/ BulkCall
  \/ BulkResolve
  \/ BulkReject
  \/ AfterHook
  \/ Catch

Next ==
  \/ NextSync
  \/ AwaitAfterHook
  \/ AwaitErrorHook

Spec == Init /\ [][Next]_vars

\* invocations around the submission: the hooks before and after it, the
\* retry count, and a batch that is empty, holds one record, or fails validation
InitLive ==
  /\ Init
  /\ options.beforeHook
  /\ ~options.recordErrorHook
  /\ ~options.transformRecordHook
  /\ options.versionField = Unset
  /\ \/ Len(event.Records) = 0
     \/ event.Records = << RawRecord("INSERT", 1) >>
     \/ event.Records = << RawRecord("NO_EVENT_NAME", 1) >>

\* every bulk call and every hook settles, and the waits of the retry driver
\* end: a step that can be taken is taken
SpecLive == InitLive /\ [][Next]_vars /\ WF_vars(Next)

----------------------------------------------------------------------------
(* One-record invocations over the mapping options *)

WireNull == [NULL |-> TRUE]

WireBool(b) == [BOOL |-> b]

EventNames == {"INSERT", "MODIFY", "REMOVE", "TRUNCATE"}

KeySets == { [id |-> WireN(1)], [id |-> WireN(1), sk |-> WireS("a")] }

VersionAttrs ==
  { EmptyMap, [ver |-> WireN(0)], [ver |-> WireN(1)], [ver |-> WireS("1")] }

TypeAttrs ==
  { EmptyMap, [t |-> WireS("")], [t |-> WireN(0)], [t |-> WireS("doc")],
    [t |-> WireNull], [t |-> WireBool(FALSE)] }

\* a record as the event formatter of the tests lays it out
FormatRecord(name, keys, attrs) ==
  [eventName   |-> name,
   eventSource |-> "aws:dynamodb",
   dynamodb    |->
     Merge(Merge([Keys |-> keys, StreamViewType |-> "NEW_AND_OLD_IMAGES"],
                 IF name = "REMOVE" THEN EmptyMap
                 ELSE [NewImage |-> Merge(attrs, keys)]),
           IF name = "INSERT" THEN EmptyMap
           ELSE [OldImage |-> Merge(keys, attrs)])]

MapEventSet ==
  { [Records |-> << FormatRecord(name, keys, Merge(va, ta)) >>, awsRegion |-> "r"]
    : name \in EventNames, keys \in KeySets, va \in VersionAttrs, ta \in TypeAttrs }

IdPolicies ==
  { [idField |-> Unset, idResolver |-> Unset],
    [idField |-> SinglePath("id"), idResolver |-> Unset],
    [idField |-> PathList(<< "sk", "id" >>), idResolver |-> Unset],
    [idField |-> Unset, idResolver |-> FieldOf("sk")] }

TypePolicies ==
  { [type |-> Unset, typeField |-> Unset],
    [type |-> Str("type"), typeField |-> Unset],
    [type |-> Unset, typeField |-> SinglePath("t")] }

VersionPolicies ==
  { [versionField |-> Unset, versionResolver |-> Unset],
    [versionField |-> SinglePath("ver"), versionResolver |-> Unset],
    [versionField |-> Unset, versionResolver |-> FieldOf("ver")] }

Separators == { Unset, Str("") }

MapOptionsBase ==
  [beforeHook          |-> FALSE,
   afterHook           |-> FALSE,
   errorHook           |-> FALSE,
   recordErrorHook     |-> FALSE,
   transformRecordHook |-> FALSE,
   retryOptions        |-> Undefined,
   bulk                |-> [refresh |-> TRUE],
   index               |-> Str("index"),
   indexField          |-> Unset,
   indexPrefix         |-> Unset,
   parentField         |-> Unset,
   pickFields          |-> Unset]

MapOptionsSet ==
  { Merge(Merge(Merge(MapOptionsBase, ip), Merge(tp, vp)), [separator |-> sep])
    : ip \in IdPolicies, tp \in TypePolicies, vp \in VersionPolicies, sep \in Separators }

InitMap ==
  /\ options \in MapOptionsSet
  /\ event \in MapEventSet
  /\ pc = "start"
  /\ idx = 0
  /\ acc = [actions |-> << >>, meta |-> << >>]
  /\ failed = << >>
  /\ bulkCalls = << >>
  /\ inflight = 0
  /\ failures = 0
  /\ esResult = Undefined
  /\ caught = NoError
  /\ outcome = Pending
  /\ raised = << >>
  /\ beforeHookCalls = << >>
  /\ transformCalls = << >>
  /\ recordErrorHookCalls = << >>
  /\ afterHookCalls = << >>
  /\ errorHookCalls = << >>
  /\ hookReturn = NoReturn
  /\ pair = NoPair
  /\ transformReturns = << >>
  /\ wrapper = PromiseMode

\* no hook is configured here, so no promise of a hook is ever awaited
SpecMap == InitMap /\ [][NextSync]_vars

----------------------------------------------------------------------------
(* One-record invocations over the document, index and submission options *)

WireM(m) == [M |-> m]

\* { a: 1, b: { c: 2, d: 3 }, e: 4 }, and the same with a key that holds a dot
DocImages ==
  { EmptyMap,
    [a |-> WireN(1), b |-> WireM([c |-> WireN(2), d |-> WireN(3)]), e |-> WireN(4)],
    Merge([a |-> WireN(1), b |-> WireM([c |-> WireN(2)])], "b.c" :> WireN(5)) }

DocEvents ==
  { [Records |-> << FormatRecord(name, [id |-> WireN(1)], img) >>, awsRegion |-> "r"]
    : name \in {"INSERT", "MODIFY", "REMOVE"}, img \in DocImages }

\* records whose Keys, NewImage and OldImage each hold, or lack, a field v
FieldEvents ==
  { [Records |->
       << [eventName   |-> "MODIFY",
           eventSource |-> "aws:dynamodb",
           dynamodb    |-> [Keys           |-> Merge([id |-> WireN(1)], kv),
                            StreamViewType |-> "NEW_AND_OLD_IMAGES",
                            NewImage       |-> Merge([id |-> WireN(1)], nv),
                            OldImage       |-> Merge([id |-> WireN(1)], ov)]] >>,
     awsRegion |-> "r"]
    : kv \in {EmptyMap, [v |-> WireS("k")]},
      nv \in {EmptyMap, [v |-> WireS("n")], [v |-> WireNull]},
      ov \in {EmptyMap, [v |-> WireS("o")], [v |-> WireNull]} }

DocOptionsBase ==
  Merge(MapOptionsBase,
        [idField      |-> Unset, idResolver      |-> Unset,
         type         |-> Unset, typeField       |-> Unset,
         versionField |-> Unset, versionResolver |-> Unset,
         separator    |-> Unset])

PickFieldsSet ==
  { Unset, SinglePath("b.c"), PathList(<< >>), PathList(<< "a", "b.c" >>),
    PathList(<< "b.x", "zz", "a" >>), PathList(<< "b.c", "b" >>) }

\* the document options: projection, hook and resolvers
DocOptionsSet ==
  { Merge(DocOptionsBase,
          [pickFields |-> pf, transformRecordHook |-> th,
           idResolver |-> ir, versionResolver     |-> vr])
    : pf \in PickFieldsSet, th \in BOOLEAN,
      ir \in {Unset, FieldOf("sk")}, vr \in {Unset, FieldOf("ver")} }

\* records with the keys { x: 'a', y: 'b' }
IndexEvents ==
  { [Records |-> << FormatRecord(name, [x |-> WireS("a"), y |-> WireS("b")], img) >>,
     awsRegion |-> "r"]
    : name \in {"INSERT", "MODIFY", "REMOVE"}, img \in DocImages }

\* the index options: a literal index, or an indexField with or without prefix
IndexOptionsSet ==
  { Merge(DocOptionsBase, [separator |-> sep]) : sep \in {Unset, Str("")} }
    \cup
  { Merge(DocOptionsBase,
          [index |-> Unset, indexField |-> xf, indexPrefix |-> px, separator |-> sep])
    : xf  \in {SinglePath("x"), SinglePath("b.c"), SinglePath("zz"),
               PathList(<< "x", "y" >>), PathList(<< "a", "e" >>),
               PathList(<< "x", "zz" >>)},
      px  \in {Unset, Str("p-")},
      sep \in {Unset, Str("")} }

\* the options under which a field is looked up by getField
FieldOptionsSet ==
  { Merge(DocOptionsBase, [idField |-> f, separator |-> sep])
    : f   \in {SinglePath("v"), SinglePath("id"), PathList(<< "id", "v" >>),
               PathList(<< "v", "zz" >>), PathList(<< "zz", "v" >>)},
      sep \in {Unset, Str(""), Str("-")} }

\* the submission options
SubmitOptionsSet ==
  { Merge(DocOptionsBase,
          [bulk |-> b, retryOptions |-> r, afterHook |-> ah, errorHook |-> eh])
    : b  \in {Unset, EmptyMap, [refresh |-> TRUE],
              [refresh |-> TRUE, body |-> << [index |-> [_id |-> Str("caller")]] >>]},
      r  \in {Undefined, [retries |-> 1]},
      ah \in BOOLEAN, eh \in BOOLEAN }

DocCases ==
  (DocOptionsSet \X DocEvents) \cup (IndexOptionsSet \X IndexEvents)
    \cup (FieldOptionsSet \X FieldEvents) \cup (SubmitOptionsSet \X DocEvents)

InitDoc ==
  /\ \E c \in DocCases : options = c[1] /\ event = c[2]
  /\ pc = "start"
  /\ idx = 0
  /\ acc = [actions |-> << >>, meta |-> << >>]
  /\ failed = << >>
  /\ bulkCalls = << >>
  /\ inflight = 0
  /\ failures = 0
  /\ esResult = Undefined
  /\ caught = NoError
  /\ outcome = Pending
  /\ raised = << >>
  /\ beforeHookCalls = << >>
  /\ transformCalls = << >>
  /\ recordErrorHookCalls = << >>
  /\ afterHookCalls = << >>
  /\ errorHookCalls = << >>
  /\ hookReturn = NoReturn
  /\ pair = NoPair
  /\ transformReturns = << >>
  /\ wrapper = PromiseMode

SpecDoc == InitDoc /\ [][Next]_vars

----------------------------------------------------------------------------
(* Two invocations of one handler, interleaved at their suspension points *)

SingleVars == << event, pc, idx, acc, failed, bulkCalls, inflight, failures, esResult,
                 caught, outcome, raised, beforeHookCalls, transformCalls,
                 recordErrorHookCalls, afterHookCalls, errorHookCalls, hookReturn,
                 transformReturns, wrapper >>

PairKinds == {"INSERT", "REMOVE", "UNKNOWN_NO_VER"}

\* the batches of invocation i: its records have keys of their own
PairEvents(i) ==
  UNION { { [Records   |-> [k \in 1..n |-> RawRecord(kinds[k], (i - 1) * PairMaxRecords + k)],
             awsRegion |-> "r"] : kinds \in [1..n -> PairKinds] }
          : n \in 1..PairMaxRecords }

PairOptionsSet ==
  { Merge(MapOptionsBase,
          [afterHook    |-> a,     errorHook       |-> e,
           retryOptions |-> [retries |-> 1], versionField |-> SinglePath("ver"),
           idField      |-> Unset, idResolver      |-> Unset,
           type         |-> Unset, typeField       |-> Unset,
           separator    |-> Unset, versionResolver |-> Unset])
    : a \in BOOLEAN, e \in BOOLEAN }

\* an accumulator that lives outside the call and is shared by the invocations
FreshAccumulator_Shared(runs, i) == runs[3 - i].acc

\* the initial value of the reduce: a new { actions: [], meta: [] } per call
FreshAccumulator(runs, i) == [actions |-> << >>, meta |-> << >>]

\* event.Records.reduce(...) with hooks that are not configured
RECURSIVE Reduce(_, _, _)
Reduce(records, opts, accum) ==
  IF Len(records) = 0 THEN Ok(accum)
  ELSE LET m == MapRecord(Head(records), opts, Ok(Undefined))
       IN  CASE m.kind = "emit" ->
                  Reduce(Tail(records), opts,
                         [actions |-> Push(accum.actions, m.actions),
                          meta    |-> Push(accum.meta, << m.meta >>)])
             [] m.kind = "skip" -> Reduce(Tail(records), opts, accum)
             [] OTHER -> Throw(m.error)

buildRequest(ev, opts, seed) == Reduce(ev.Records, opts, seed)

NewRun(ev) ==
  [event    |-> ev,      pc        |-> "start", acc       |-> [actions |-> << >>, meta |-> << >>],
   calls    |-> << >>,   failures  |-> 0,       esResult  |-> Undefined,
   afterArgs |-> << >>,  errorArgs |-> << >>,   caught    |-> NoError,
   outcome  |-> Pending]

\* catch (err): hand the error to errorHook, or rethrow it
PairCatch(run, e) ==
  IF options.errorHook
  THEN [run EXCEPT !.caught = e, !.pc = "awaitError",
                   !.errorArgs = Append(@, << run.event, Context, e >>)]
  ELSE [run EXCEPT !.caught = e, !.pc = "done", !.outcome = Rejected(e)]

\* esclient.bulk({ ...bulkOpts, body: parsedEvent.actions })
PairSubmit(run) ==
  [run EXCEPT !.calls = Append(@, BulkArgs(BulkOpts(options), run.acc.actions)),
              !.pc = "inflight"]

\* handle() up to its first await: validate, buildRequest, the first bulk call
PairStarted(run, built) ==
  IF ~EventSchemaValid(run.event, Merge(ValidateDefaults, EventValidateOptions))
  THEN PairCatch(run, ValidationError("event"))
  ELSE IF ~built.ok THEN PairCatch(run, built.error)
  ELSE IF IsEmptyBatch(built.value)
  THEN [run EXCEPT !.acc = built.value, !.pc = "done", !.outcome = Resolved(EmptyResult)]
  ELSE PairSubmit([run EXCEPT !.acc = built.value])

PairStart(i) ==
  /\ pair.runs[i].pc = "start"
  /\ pair' = [pair EXCEPT !.runs[i] =
                PairStarted(@, buildRequest(@.event, options,
                                            FreshAccumulator(pair.runs, i)))]
  /\ UNCHANGED << options, SingleVars >>

\* the bulk call resolves: afterHook is called, or the result is returned
PairBulkResolve(i) ==
  /\ pair.runs[i].pc = "inflight"
  /\ \E r \in EsResults :
       pair' = [pair EXCEPT !.runs[i] =
                 IF options.afterHook
                 THEN [@ EXCEPT !.esResult = r, !.pc = "awaitAfter",
                                !.afterArgs = Append(@, << pair.runs[i].event, Context, r,
                                                           pair.runs[i].acc.meta >>)]
                 ELSE [@ EXCEPT !.esResult = r, !.pc = "done", !.outcome = Resolved(r)]]
  /\ UNCHANGED << options, SingleVars >>

\* the bulk call rejects: the retry driver calls again or gives up
PairBulkReject(i) ==
  /\ pair.runs[i].pc = "inflight"
  /\ pair' = [pair EXCEPT !.runs[i] =
                IF ShouldRetry(Len(@.calls), Retries(options))
                THEN PairSubmit([@ EXCEPT !.failures = @ + 1])
                ELSE PairCatch([@ EXCEPT !.failures = @ + 1],
                               ResponseError(Len(@.calls)))]
  /\ UNCHANGED << options, SingleVars >>

\* the promise of afterHook settles
PairAfterSettle(i) ==
  /\ pair.runs[i].pc = "awaitAfter"
  /\ \/ \E v \in {Undefined, Str("after")} :
          pair' = [pair EXCEPT !.runs[i] =
                    [@ EXCEPT !.pc = "done",
                              !.outcome = Resolved(AfterHookResult(v, pair.runs[i].esResult))]]
     \/ pair' = [pair EXCEPT !.runs[i] = PairCatch(@, HookError("afterHook"))]
  /\ UNCHANGED << options, SingleVars >>

\* the promise of errorHook settles
PairErrorSettle(i) ==
  /\ pair.runs[i].pc = "awaitError"
  /\ \/ \E v \in ErrorHookReturns :
          pair' = [pair EXCEPT !.runs[i] = [@ EXCEPT !.pc = "done", !.outcome = Resolved(v)]]
     \/ pair' = [pair EXCEPT !.runs[i] =
                   [@ EXCEPT !.pc = "done", !.outcome = Rejected(HookError("errorHook"))]]
  /\ UNCHANGED << options, SingleVars >>

InitPair ==
  /\ options \in PairOptionsSet
  /\ \E e1 \in PairEvents(1), e2 \in PairEvents(2) :
       pair = [runs |-> << NewRun(e1), NewRun(e2) >>]
  /\ event = [Records |-> << >>]
  /\ pc = "done"
  /\ idx = 0
  /\ acc = [actions |-> << >>, meta |-> << >>]
  /\ failed = << >>
  /\ bulkCalls = << >>
  /\ inflight = 0
  /\ failures = 0
  /\ esResult = Undefined
  /\ caught = NoError
  /\ outcome = Resolved(EmptyResult)
  /\ raised = << >>
  /\ beforeHookCalls = << >>
  /\ transformCalls = << >>
  /\ recordErrorHookCalls = << >>
  /\ afterHookCalls = << >>
  /\ errorHookCalls = << >>
  /\ hookReturn = NoReturn
  /\ transformReturns = << >>
  /\ wrapper = PromiseMode

NextPair ==
  \E i \in 1..2 :
    \/ PairStart(i)
    \/ PairBulkResolve(i)
    \/ PairBulkReject(i)
    \/ PairAfterSettle(i)
    \/ PairErrorSettle(i)

SpecPair == InitPair /\ [][NextPair]_vars

----------------------------------------------------------------------------
(* The handler factory: options are validated before a handler exists *)

Has(opts, key) == key \in DOMAIN opts /\ opts[key] # Unset

\* the options the HANDLER_OPTIONS schema names
KnownOptions ==
  {"client", "bulk", "beforeHook", "afterHook", "errorHook", "recordErrorHook",
   "transformRecordHook", "retryOptions", "separator", "pickFields", "parentField",
   "idField", "idResolver", "index", "indexField", "indexPrefix", "type", "typeField",
   "versionField", "versionResolver"}

\* the rules of the HANDLER_OPTIONS schema, each with its message
HandlerOptionsRules(opts) ==
  << << ~Has(opts, "client"), "\"elasticsearch.client\" is required" >>,
     << DOMAIN opts \ KnownOptions # {}, "\"es\" is not allowed" >>,
     << Has(opts, "idField") /\ Has(opts, "idResolver"),
        "conflict between optional exclusive peers [idField, idResolver]" >>,
     << Has(opts, "versionField") /\ Has(opts, "versionResolver"),
        "conflict between optional exclusive peers [versionField, versionResolver]" >>,
     << Has(opts, "index") /\ Has(opts, "indexField"),
        "conflict between exclusive peers [index, indexField]" >>,
     << ~Has(opts, "index") /\ ~Has(opts, "indexField"),
        "must contain at least one of [index, indexField]" >>,
     << Has(opts, "type") /\ Has(opts, "typeField"),
        "conflict between optional exclusive peers [type, typeField]" >>,
     << Has(opts, "index") /\ Has(opts, "indexPrefix"),
        "\"index\" conflict with forbidden peer \"indexPrefix\"" >> >>

\* abortEarly: false: the message of every rule that is broken, in schema order
HandlerOptionsViolations(opts) ==
  [i \in 1..Len(SelectSeq(HandlerOptionsRules(opts), LAMBDA r : r[1])) |->
     SelectSeq(HandlerOptionsRules(opts), LAMBDA r : r[1])[i][2]]

\* options = {} when the factory is called without an argument
NoOptions == EmptyMap

\* what a caller adds to, or takes from, a valid configuration
OptionFaults ==
  { EmptyMap,
    [client |-> Unset],
    [es |-> EmptyMap],
    [idField |-> SinglePath("id"), idResolver |-> FieldOf("sk")],
    [indexField |-> SinglePath("a")],
    [index |-> Unset],
    [indexPrefix |-> Str("p-")],
    [client |-> Unset, es |-> EmptyMap, indexField |-> SinglePath("a"),
     versionField |-> SinglePath("ver"), versionResolver |-> FieldOf("ver")] }

ConstructOptionsSet ==
  { Merge(Merge(DocOptionsBase,
                [client    |-> [node |-> "https://foo"], afterHook |-> ah,
                 errorHook |-> eh, recordErrorHook |-> rh]),
          fault)
    : ah \in BOOLEAN, eh \in BOOLEAN, rh \in BOOLEAN, fault \in OptionFaults }
    \cup {NoOptions}

\* a factory that returns a handler in any case and leaves the error of the
\* options to the catch clause of the invocation
Construct_Deferred ==
  /\ pc = "construct"
  /\ IF Len(HandlerOptionsViolations(options)) = 0
     THEN /\ pc' = "start"
          /\ UNCHANGED << raised, caught >>
     ELSE ThrowToCatch(NewError(Merge(ValidationError("options"),
                                      [messages |-> HandlerOptionsViolations(options)])))
  /\ UNCHANGED << wrapper, transformReturns, pair, options, event, idx, acc, failed, bulkCalls, inflight, failures, esResult,
                  outcome, beforeHookCalls, transformCalls, recordErrorHookCalls,
                  afterHookCalls, errorHookCalls, hookReturn >>

\* validate(options, HANDLER_OPTIONS) ahead of everything else in the factory:
\* it throws out of the factory, or the factory goes on to return handle
Construct ==
  /\ pc = "construct"
  /\ IF Len(HandlerOptionsViolations(options)) = 0
     THEN /\ pc' = "start"
          /\ UNCHANGED raised
     ELSE /\ raised' = Append(raised,
                              NewError(Merge(ValidationError("options"),
                                             [messages |-> HandlerOptionsViolations(options)])))
          /\ pc' = "unbuilt"
  /\ UNCHANGED << wrapper, transformReturns, pair, options, event, idx, acc, failed, bulkCalls, inflight, failures, esResult,
                  caught, outcome, beforeHookCalls, transformCalls, recordErrorHookCalls,
                  afterHookCalls, errorHookCalls, hookReturn >>

InitConstruct ==
  /\ options \in ConstructOptionsSet
  /\ event \in DocEvents
  /\ pc = "construct"
  /\ idx = 0
  /\ acc = [actions |-> << >>, meta |-> << >>]
  /\ failed = << >>
  /\ bulkCalls = << >>
  /\ inflight = 0
  /\ failures = 0
  /\ esResult = Undefined
  /\ caught = NoError
  /\ outcome = Pending
  /\ raised = << >>
  /\ beforeHookCalls = << >>
  /\ transformCalls = << >>
  /\ recordErrorHookCalls = << >>
  /\ afterHookCalls = << >>
  /\ errorHookCalls = << >>
  /\ hookReturn = NoReturn
  /\ pair = NoPair
  /\ transformReturns = << >>
  /\ wrapper = PromiseMode

NextConstruct == Construct \/ Next

SpecConstruct == InitConstruct /\ [][NextConstruct]_vars

----------------------------------------------------------------------------
(* The exported function called with a callback *)

\* if (callback): the promise of handle() is chained to the callback and the
\* exported function returns nothing
CallbackMode ==
  [mode |-> "callback", returned |-> "undefined", chain |-> "pending",
   reason |-> NoError, callbackCalls |-> << >>]

\* what a callback does when it is called: it returns, or it throws
CallbackOutcomes == {Ok(Undefined), Throw([name |-> "Error", thrownBy |-> "callback"])}

\* .then(res => callback(null, res)): runs when handle() has resolved; the
\* promise it returns is rejected when the callback throws, and with the
\* error of handle() when handle() has rejected
ThenCallback ==
  /\ wrapper.mode = "callback"
  /\ wrapper.chain = "pending"
  /\ pc = "done"
  /\ IF outcome.kind = "resolved"
     THEN \E c \in CallbackOutcomes :
            wrapper' = [wrapper EXCEPT
                          !.callbackCalls = Append(@, << Null, outcome.value >>),
                          !.chain  = IF c.ok THEN "fulfilled" ELSE "rejected",
                          !.reason = IF c.ok THEN @ ELSE c.error]
     ELSE wrapper' = [wrapper EXCEPT !.chain = "rejected", !.reason = outcome.error]
  /\ UNCHANGED << options, pair, event, pc, idx, acc, failed, bulkCalls, inflight, failures,
                  esResult, caught, outcome, raised, beforeHookCalls, transformCalls,
                  recordErrorHookCalls, afterHookCalls, errorHookCalls, hookReturn,
                  transformReturns >>

\* .catch(callback): runs when the promise of .then(...) is rejected
CatchCallback ==
  /\ wrapper.mode = "callback"
  /\ wrapper.chain = "rejected"
  /\ wrapper' = [wrapper EXCEPT
                   !.callbackCalls = Append(@, << wrapper.reason >>),
                   !.chain = "caught"]
  /\ UNCHANGED << options, pair, event, pc, idx, acc, failed, bulkCalls, inflight, failures,
                  esResult, caught, outcome, raised, beforeHookCalls, transformCalls,
                  recordErrorHookCalls, afterHookCalls, errorHookCalls, hookReturn,
                  transformReturns >>

InitCallback ==
  /\ options \in OptionsSet
  /\ options.beforeHook
  /\ ~options.recordErrorHook
  /\ ~options.transformRecordHook
  /\ options.versionField = Unset
  /\ event \in EventSet
  /\ \/ Len(event.Records) = 0
     \/ event.Records = << RawRecord("INSERT", 1) >>
     \/ event.Records = << RawRecord("NO_EVENT_NAME", 1) >>
  /\ wrapper \in {PromiseMode, CallbackMode}
  /\ pc = "start"
  /\ idx = 0
  /\ acc = [actions |-> << >>, meta |-> << >>]
  /\ failed = << >>
  /\ bulkCalls = << >>
  /\ inflight = 0
  /\ failures = 0
  /\ esResult = Undefined
  /\ caught = NoError
  /\ outcome = Pending
  /\ raised = << >>
  /\ beforeHookCalls = << >>
  /\ transformCalls = << >>
  /\ recordErrorHookCalls = << >>
  /\ afterHookCalls = << >>
  /\ errorHookCalls = << >>
  /\ hookReturn = NoReturn
  /\ pair = NoPair
  /\ transformReturns = << >>

NextCallback ==
  \/ Next
  \/ ThenCallback
  \/ CatchCallback

SpecCallback == InitCallback /\ [][NextCallback]_vars

----------------------------------------------------------------------------
(* Types *)

TypeOK ==
  /\ pc \in {"construct", "unbuilt", "start", "validate", "build", "submit", "inflight",
            "after", "awaitAfter", "catch", "awaitError", "done"}
  /\ idx \in 0..Len(event.Records)
  /\ inflight \in Nat
  /\ failures \in Nat
  /\ outcome.kind \in {"pending", "resolved", "rejected"}
  /\ (pc = "done") <=> (outcome.kind # "pending")

----------------------------------------------------------------------------
(* Observations used by the properties *)

\* buildRequest has returned its accumulator to handle()
Assembled ==
  \/ pc \in {"submit", "inflight", "after", "awaitAfter"}
  \/ /\ pc \in {"catch", "awaitError", "done"}
     /\ \/ caught = NoError
        \/ caught.name = "ResponseError"
        \/ (caught.name = "Error" /\ caught.thrownBy = "afterHook")

\* the invocation has failed: control reached the catch clause of handle()
Failed == caught # NoError

\* a bulk call of this invocation has resolved
Submitted == esResult # Undefined

\* an error thrown inside the try block of the reducer of buildRequest
IsRecordError(e) ==
  \/ e.name \in {"FieldNotFoundError", "UnknownEventNameError"}
  \/ (e.name = "ValidationError" /\ e.label # "event")
  \/ (e.name = "Error" /\ e.thrownBy = "transformRecordHook")
  \/ (e.name = "TypeError" /\ e.thrownBy = "resolver")

----------------------------------------------------------------------------
(* Properties *)

\* C1: an invocation whose assembled action list is empty never calls bulk and
\* resolves with {took: 0, errors: false, items: []}; no bulk call ever
\* carries an empty body.
C1_EmptyBatchShortCircuit ==
  /\ (Assembled /\ Len(acc.actions) = 0) =>
        /\ bulkCalls = << >>
        /\ pc = "done"
        /\ outcome = Resolved(EmptyResult)
  /\ \A i \in 1..Len(bulkCalls) : bulkCalls[i].body # << >>

\* a batch of two records, one routed to recordErrorHook and one skipped by
\* transformRecordHook, ended in the empty result
C1_Witness ==
  /\ pc = "done"
  /\ Len(event.Records) = 2
  /\ Len(failed) = 1
  /\ Len(recordErrorHookCalls) = 1
  /\ Len(transformCalls) = 2
  /\ acc.actions = << >>
  /\ outcome = Resolved(EmptyResult)

\* C2: with retries = n, bulk is called at most n + 1 times; the invocation
\* fails on delivery only after exactly n + 1 failed calls, with the error of
\* the last call; after a call has resolved no further call is made.
C2_RetryBound ==
  LET n == Retries(options)
  IN  /\ Len(bulkCalls) <= n + 1
      /\ (Failed /\ caught.name = "ResponseError") =>
            /\ Len(bulkCalls) = n + 1
            /\ failures = n + 1
            /\ caught.attempt = n + 1
            /\ (pc = "done" /\ ~options.errorHook) => outcome = Rejected(caught)
      /\ (failures < n + 1) => ~(Failed /\ caught.name = "ResponseError")
      /\ Submitted => (Len(bulkCalls) = failures + 1 /\ inflight = 0)

\* retries = 1, both attempts failed and the invocation rejected with the
\* second attempt's error
C2_Witness ==
  /\ pc = "done"
  /\ Retries(options) = 1
  /\ Len(bulkCalls) = 2
  /\ outcome.kind = "rejected"
  /\ outcome.error.name = "ResponseError"
  /\ outcome.error.attempt = 2

\* C3: when the invocation fails and errorHook is configured, errorHook is
\* called exactly once with (event, context, that error) and the invocation
\* settles as errorHook does: it resolves with the value errorHook returned;
\* without errorHook the caught error rejects the invocation.  errorHook is
\* not called in an invocation that has not failed.
C3_ErrorHookRouting ==
  /\ ~Failed => errorHookCalls = << >>
  /\ ~options.errorHook => errorHookCalls = << >>
  /\ (pc = "done" /\ Failed /\ options.errorHook) =>
        /\ errorHookCalls = << << event, Context, caught >> >>
        /\ (hookReturn # NoReturn /\ hookReturn.hook = "errorHook") =>
              outcome = Resolved(hookReturn.value)
        /\ outcome.kind = "rejected" =>
              (outcome.error.name = "Error" /\ outcome.error.thrownBy = "errorHook")
  /\ (pc = "done" /\ Failed /\ ~options.errorHook) => outcome = Rejected(caught)

\* a delivery error after an exhausted retry was handed to errorHook and the
\* invocation resolved with the hook's return value
C3_Witness ==
  /\ pc = "done"
  /\ options.errorHook
  /\ caught.name = "ResponseError"
  /\ Len(errorHookCalls) = 1
  /\ outcome = Resolved(Str("recovered"))

\* the errors of a list of hook calls (the last argument of each call)
ErrorsOf(calls) == [i \in 1..Len(calls) |-> calls[i][3]]

\* the invocation was stopped before or inside buildRequest by something other
\* than a record's own error
StoppedEarly ==
  /\ Failed
  /\ \/ (caught.name = "ValidationError" /\ caught.label = "event")
     \/ (caught.name = "Error" /\ caught.thrownBy \in {"beforeHook", "recordErrorHook"})

\* the descriptors of the action list, in order
Descriptors(actions) ==
  SelectSeq(actions, LAMBDA a : "index" \in DOMAIN a \/ "delete" \in DOMAIN a)

DescriptorOf(a) == IF "index" \in DOMAIN a THEN a.index ELSE a.delete

\* C4: with recordErrorHook configured, each record whose decoding or mapping
\* fails causes exactly one recordErrorHook(event, context, error) call with
\* its own error, adds no action and no metadata entry, and never becomes the
\* failure of the invocation; unless something else stops the invocation,
\* every record of the batch is processed.
C4_RecordFailureIsolation ==
  options.recordErrorHook =>
    /\ ErrorsOf(recordErrorHookCalls) = SelectSeq(raised, IsRecordError)
    /\ Len(recordErrorHookCalls) = Len(failed)
    /\ \A i \in 1..Len(recordErrorHookCalls) :
         /\ recordErrorHookCalls[i][1] = event
         /\ recordErrorHookCalls[i][2] = Context
    /\ \A k \in 1..Len(failed) :
         /\ \A i \in 1..Len(acc.meta) : acc.meta[i].event.eventID # failed[k]
         /\ \A i \in 1..Len(Descriptors(acc.actions)) :
              DescriptorOf(Descriptors(acc.actions)[i])._id # Str(ToString(failed[k]))
    /\ ~IsRecordError(caught)
    /\ (pc \notin {"start", "validate", "build"} /\ ~StoppedEarly) =>
          idx = Len(event.Records)

\* the first record failed and went to recordErrorHook, the second was still
\* mapped and submitted, and the invocation resolved with the engine result
C4_Witness ==
  /\ pc = "done"
  /\ options.recordErrorHook
  /\ failed = << 1 >>
  /\ Len(recordErrorHookCalls) = 1
  /\ Len(acc.meta) = 1
  /\ acc.meta[1].event.eventID = 2
  /\ Len(bulkCalls) = 1
  /\ outcome.kind = "resolved"
  /\ outcome.value \in EsResults

\* C5: without recordErrorHook, the first record that fails aborts the
\* invocation with its error: no record after it is processed, no bulk call
\* is made (not even for the records mapped before it) and afterHook is not
\* called.
C5_AbortWithoutRecordErrorHook ==
  (~options.recordErrorHook /\ failed # << >>) =>
    /\ Len(failed) = 1
    /\ idx = failed[1]
    /\ pc \in {"catch", "awaitError", "done"}
    /\ IsRecordError(caught)
    /\ SelectSeq(raised, IsRecordError) = << caught >>
    /\ bulkCalls = << >>
    /\ afterHookCalls = << >>
    /\ recordErrorHookCalls = << >>
    /\ (pc = "done" /\ ~options.errorHook) => outcome = Rejected(caught)

\* the first record was mapped into the action list, the second failed, and
\* the invocation rejected with that error without any bulk call
C5_Witness ==
  /\ pc = "done"
  /\ ~options.recordErrorHook
  /\ failed = << 2 >>
  /\ Len(acc.actions) > 0
  /\ bulkCalls = << >>
  /\ outcome = Rejected(caught)

\* how many of the hooks and the caller received the error e
TimesHandled(e) ==
  (IF outcome = Rejected(e) THEN 1 ELSE 0)
  + Cardinality({i \in 1..Len(recordErrorHookCalls) : recordErrorHookCalls[i][3] = e})
  + Cardinality({i \in 1..Len(errorHookCalls) : errorHookCalls[i][3] = e})

\* the error of a failed bulk attempt that the retry driver answered by retrying
AbsorbedByRetry(e) == e.name = "ResponseError" /\ e.attempt < Len(bulkCalls)

\* C6 as stated: when the invocation has completed, every error raised during
\* it, submission errors included, was re-raised to the caller or handed to
\* exactly one of recordErrorHook and errorHook.
C6_EveryErrorHandledOnce ==
  pc = "done" => \A i \in 1..Len(raised) : TimesHandled(raised[i]) = 1

\* C6 (amended): when the invocation has completed, every error raised by
\* validation, record mapping, a hook or the last bulk attempt was re-raised to
\* the caller or handed to exactly one of recordErrorHook and errorHook; the
\* error of a bulk attempt that was retried is absorbed by the retry driver
\* and reaches neither.
C6_EveryErrorHandledOnceExceptRetried ==
  pc = "done" =>
    \A i \in 1..Len(raised) :
      /\ ~AbsorbedByRetry(raised[i]) => TimesHandled(raised[i]) = 1
      /\ AbsorbedByRetry(raised[i]) => TimesHandled(raised[i]) = 0

\* a record error went to recordErrorHook, a first bulk attempt failed and was
\* retried, and the second attempt's error went to errorHook
C6_Witness ==
  /\ pc = "done"
  /\ Len(recordErrorHookCalls) = 1
  /\ Len(bulkCalls) = 2
  /\ failures = 2
  /\ Len(errorHookCalls) = 1
  /\ errorHookCalls[1][3].name = "ResponseError"
  /\ Len(raised) >= 3

\* position in the batch of the record a metadata entry / descriptor came from
MetaPosition(m) == m.event.eventID

DescriptorPosition(d) ==
  CHOOSE k \in 0..Len(event.Records) :
    \/ (k > 0 /\ d._id = Str(ToString(k)))
    \/ (k = 0 /\ \A j \in 1..Len(event.Records) : d._id # Str(ToString(j)))

\* C7: the metadata entries and the action descriptors appear in the order of
\* the input records they came from; only processed records that neither
\* failed nor were skipped contribute, each at most once.
C7_OrderPreserved ==
  LET ds == Descriptors(acc.actions)
  IN  /\ \A i, j \in 1..Len(acc.meta) :
           i < j => MetaPosition(acc.meta[i]) < MetaPosition(acc.meta[j])
      /\ \A i, j \in 1..Len(ds) :
           i < j => DescriptorPosition(DescriptorOf(ds[i])) < DescriptorPosition(DescriptorOf(ds[j]))
      /\ \A i \in 1..Len(acc.meta) :
           /\ MetaPosition(acc.meta[i]) \in 1..idx
           /\ \A k \in 1..Len(failed) : MetaPosition(acc.meta[i]) # failed[k]
      /\ \A i \in 1..Len(ds) :
           /\ DescriptorPosition(DescriptorOf(ds[i])) \in 1..idx
           /\ \A k \in 1..Len(failed) : DescriptorPosition(DescriptorOf(ds[i])) # failed[k]
      /\ Len(acc.meta) + Len(failed) <= idx

\* two records were emitted, the first an upsert and the second a delete
C7_Witness ==
  /\ idx = 2
  /\ Len(acc.meta) = 2
  /\ Len(acc.actions) = 3
  /\ MetaPosition(acc.meta[1]) = 1
  /\ MetaPosition(acc.meta[2]) = 2

\* the action-list entries one metadata entry stands for
EntriesOf(m) ==
  IF "index" \in DOMAIN m.action THEN << m.action, m.document >> ELSE << m.action >>

RECURSIVE Flatten(_)
Flatten(meta) ==
  IF Len(meta) = 0 THEN << >> ELSE EntriesOf(Head(meta)) \o Flatten(Tail(meta))

Upserts(meta) == Cardinality({i \in 1..Len(meta) : "index" \in DOMAIN meta[i].action})

Deletes(meta) == Cardinality({i \in 1..Len(meta) : "delete" \in DOMAIN meta[i].action})

\* C8: after any prefix of the records, the action list is, per emitted
\* record, {index: d} followed by the document (INSERT/MODIFY) or {delete: d}
\* alone (REMOVE); the metadata list has one entry per descriptor in the same
\* order, holding that descriptor, the document and the original record with
\* Keys/NewImage/OldImage replaced by the decoded images.
C8_BatchStructure ==
  /\ acc.actions = Flatten(acc.meta)
  /\ Len(acc.actions) = 2 * Upserts(acc.meta) + Deletes(acc.meta)
  /\ Len(acc.meta) = Upserts(acc.meta) + Deletes(acc.meta)
  /\ Len(Descriptors(acc.actions)) = Len(acc.meta)
  /\ \A i \in 1..Len(acc.meta) :
       LET m   == acc.meta[i]
           rec == event.Records[MetaPosition(m)]
       IN  /\ DOMAIN m = {"event", "action", "document"}
           /\ Descriptors(acc.actions)[i] = m.action
           /\ Truthy(m.document)
           /\ ("index" \in DOMAIN m.action) <=> (rec.eventName \in {"INSERT", "MODIFY"})
           /\ ("delete" \in DOMAIN m.action) <=> (rec.eventName = "REMOVE")
           /\ DOMAIN m.event = DOMAIN rec
           /\ \A f \in DOMAIN rec \ {"dynamodb"} : m.event[f] = rec[f]
           /\ DOMAIN m.event.dynamodb =
                DOMAIN rec.dynamodb \cup {"Keys", "NewImage", "OldImage"}
           /\ m.event.dynamodb.Keys = Obj([id |-> Num(MetaPosition(m))])
           /\ \A img \in {"NewImage", "OldImage"} :
                /\ m.event.dynamodb[img].type = "object"
                /\ DOMAIN m.event.dynamodb[img].fields =
                     (IF img \in DOMAIN rec.dynamodb THEN DOMAIN rec.dynamodb[img] ELSE {})
                /\ \A f \in DOMAIN m.event.dynamodb[img].fields :
                     m.event.dynamodb[img].fields[f].type \in {"number", "string"}

\* an upsert with its document followed by a delete without one
C8_Witness ==
  /\ Len(acc.meta) = 2
  /\ "index" \in DOMAIN acc.meta[1].action
  /\ "delete" \in DOMAIN acc.meta[2].action
  /\ acc.actions = << acc.meta[1].action, acc.meta[1].document, acc.meta[2].action >>

\* C9: after a successful submission, a configured afterHook is called with
\* (event, context, engine result, metadata list) and the invocation resolves
\* with the value it returned unless that value is undefined (null, 0 and
\* false override), and with the engine result if it returned undefined;
\* without afterHook the invocation resolves with the engine result.
C9_AfterHookOverride ==
  /\ (pc = "done" /\ hookReturn # NoReturn /\ hookReturn.hook = "afterHook") =>
        /\ afterHookCalls = << << event, Context, esResult, acc.meta >> >>
        /\ hookReturn.value # Undefined => outcome = Resolved(hookReturn.value)
        /\ hookReturn.value = Undefined => outcome = Resolved(esResult)
  /\ (pc = "done" /\ Submitted /\ ~Failed /\ options.afterHook) =>
        (hookReturn # NoReturn /\ hookReturn.hook = "afterHook")
  /\ (pc = "done" /\ Submitted /\ ~options.afterHook) =>
        /\ outcome = Resolved(esResult)
        /\ afterHookCalls = << >>

\* afterHook returned null and the invocation resolved with null
C9_Witness ==
  /\ pc = "done"
  /\ Submitted
  /\ hookReturn = [hook |-> "afterHook", value |-> Null]
  /\ outcome = Resolved(Null)

\* C10: at most one bulk call is in flight at any time, and every call but
\* the latest has settled with a rejection, so a retry starts only after the
\* previous attempt has failed.
C10_SequentialRetries ==
  /\ inflight <= 1
  /\ Len(bulkCalls) = failures + inflight + (IF Submitted THEN 1 ELSE 0)
  /\ Len(bulkCalls) >= 2 => failures >= Len(bulkCalls) - 1

\* the second attempt is in flight after the first one was rejected
C10_Witness ==
  /\ pc = "inflight"
  /\ Len(bulkCalls) = 2
  /\ failures = 1
  /\ inflight = 1

\* C11: every submission attempt carries the action list buildRequest returned
\* before the first attempt, and once an attempt has been made the batch is
\* not assembled again: the accumulator, the position in the batch and the
\* call logs of transformRecordHook and recordErrorHook stay as they are, so
\* a delete descriptor's version is incremented once, not once per attempt.
C11_IdenticalResubmission ==
  /\ [](\A i \in 1..Len(bulkCalls) :
          /\ bulkCalls[i].body = acc.actions
          /\ bulkCalls[i] = bulkCalls[1]
          /\ \A k \in 1..Len(bulkCalls[i].body) :
               ("delete" \in DOMAIN bulkCalls[i].body[k]
                  /\ "version" \in DOMAIN bulkCalls[i].body[k].delete)
               => bulkCalls[i].body[k].delete.version = Num(2))
  /\ [][bulkCalls # << >>
         => UNCHANGED << acc, idx, failed, transformCalls, recordErrorHookCalls >>]_vars

\* a second attempt was made with a versioned delete in the batch, after
\* transformRecordHook and recordErrorHook were called during assembly
C11_Witness ==
  /\ Len(bulkCalls) = 2
  /\ transformCalls # << >>
  /\ recordErrorHookCalls # << >>
  /\ \E k \in 1..Len(acc.actions) :
       /\ "delete" \in DOMAIN acc.actions[k]
       /\ "version" \in DOMAIN acc.actions[k].delete

----------------------------------------------------------------------------
(* Properties of the mapping of one record *)

\* the record of a one-record invocation
TheRecord == event.Records[1]

VersionConfigured == IsSet(options.versionField) \/ IsSet(options.versionResolver)

\* the marshalled version attribute the record stores
StoredVersion ==
  LET image == IF TheRecord.eventName = "REMOVE"
               THEN TheRecord.dynamodb.OldImage
               ELSE TheRecord.dynamodb.NewImage
  IN  IF "ver" \in DOMAIN image THEN image.ver ELSE WireNull

\* C12: with a version configured, the descriptor of a REMOVE carries the
\* resolved version plus one and the descriptor of an INSERT or MODIFY carries
\* the resolved version itself, in the action list and in the metadata entry
\* alike; with no version configured the descriptor carries no version.
C12_RemoveVersionIncrement ==
  \A i \in 1..Len(acc.meta) :
    LET d == DescriptorOf(acc.meta[i].action)
    IN  /\ d = DescriptorOf(Descriptors(acc.actions)[i])
        /\ ~VersionConfigured => "version" \notin DOMAIN d
        /\ VersionConfigured =>
             /\ StoredVersion \in {WireN(0), WireN(1)}
             /\ "version" \in DOMAIN d
             /\ d.version = Num((IF StoredVersion = WireN(0) THEN 0 ELSE 1)
                                + (IF TheRecord.eventName = "REMOVE" THEN 1 ELSE 0))

\* a REMOVE of a record stored with version 1 was submitted as a delete with version 2
C12_Witness ==
  /\ Submitted
  /\ TheRecord.eventName = "REMOVE"
  /\ IsSet(options.versionField)
  /\ StoredVersion = WireN(1)
  /\ acc.actions[1].delete.version = Num(2)
  /\ acc.meta[1].action.delete.version = Num(2)

\* the image getField reads a non-key attribute of the record from
StoredImage ==
  IF TheRecord.eventName = "REMOVE"
  THEN TheRecord.dynamodb.OldImage
  ELSE TheRecord.dynamodb.NewImage

\* the marshalled type attribute the record stores
StoredType == IF "t" \in DOMAIN StoredImage THEN StoredImage.t ELSE Undefined

\* C13: an emitted descriptor has a _type only when config.type or the value
\* resolved from typeField is truthy, and then _type is that value; with
\* neither option set, or with typeField resolving to the empty string, 0, null
\* or false, the descriptor has no _type attribute at all.
C13_TypeOmission ==
  \A i \in 1..Len(Descriptors(acc.actions)) :
    LET d == DescriptorOf(Descriptors(acc.actions)[i])
    IN  /\ "_type" \in DOMAIN d => Truthy(d._type)
        /\ IsSet(options.type) => ("_type" \in DOMAIN d /\ d._type = Str("type"))
        /\ (~IsSet(options.type) /\ ~IsSet(options.typeField)) => "_type" \notin DOMAIN d
        /\ IsSet(options.typeField) =>
             /\ StoredType \in {WireS(""), WireN(0), WireNull, WireBool(FALSE)}
                  => "_type" \notin DOMAIN d
             /\ StoredType = WireS("doc") => ("_type" \in DOMAIN d /\ d._type = Str("doc"))
             /\ StoredType # Undefined

\* a record whose type field holds the empty string was submitted without _type
C13_Witness ==
  /\ Submitted
  /\ IsSet(options.typeField)
  /\ StoredType = WireS("")
  /\ Len(bulkCalls) = 1
  /\ "_type" \notin DOMAIN DescriptorOf(bulkCalls[1].body[1])

\* neither idField nor idResolver is configured
DefaultIdPolicy == ~IsSet(options.idField) /\ ~IsSet(options.idResolver)

Separator == IF IsSet(options.separator) THEN options.separator.s ELSE "."

\* the names of the key fields of the record, in the order of Keys
KeyNames == SelectKeys(FieldOrder, DOMAIN TheRecord.dynamodb.Keys)

\* C14 as stated: with neither idField nor idResolver configured, the id of
\* every emitted descriptor is the names of the key fields joined by the
\* separator.
C14_DefaultIdFromKeyNames ==
  DefaultIdPolicy =>
    \A i \in 1..Len(Descriptors(acc.actions)) :
      DescriptorOf(Descriptors(acc.actions)[i])._id
        = Str(Join([k \in 1..Len(KeyNames) |-> Str(KeyNames[k])], Separator))

\* C14, amended: with neither idField nor idResolver configured, the id of
\* every emitted descriptor is the decoded values stored under the key field
\* names, joined by the separator, and not the join of the names themselves.
C14_DefaultIdFromKeyValues ==
  DefaultIdPolicy =>
    \A i \in 1..Len(Descriptors(acc.actions)) :
      LET id == DescriptorOf(Descriptors(acc.actions)[i])._id
      IN  /\ id = Str(Join([k \in 1..Len(KeyNames) |->
                              unmarshall(TheRecord.dynamodb.Keys[KeyNames[k]])],
                           Separator))
          /\ id # Str(Join([k \in 1..Len(KeyNames) |-> Str(KeyNames[k])], Separator))

\* a record with the keys id = 1 and sk = "a" was submitted under the id "1.a"
C14_Witness ==
  /\ Submitted
  /\ DefaultIdPolicy
  /\ KeyNames = << "id", "sk" >>
  /\ ~IsSet(options.separator)
  /\ DescriptorOf(bulkCalls[1].body[1])._id = Str("1.a")

\* C15: with neither idField nor idResolver configured, the id is the values
\* of the key fields in the order of Keys joined by the separator, "." unless
\* configured: the keys id = 1, sk = "a" give "1.a", or "1a" with the empty
\* separator, and the single key id = 1 gives "1".
C15_DefaultIdFromKeyValuesInOrder ==
  DefaultIdPolicy =>
    \A i \in 1..Len(Descriptors(acc.actions)) :
      DescriptorOf(Descriptors(acc.actions)[i])._id =
        IF TheRecord.dynamodb.Keys = [id |-> WireN(1)] THEN Str("1")
        ELSE IF TheRecord.dynamodb.Keys = [id |-> WireN(1), sk |-> WireS("a")]
        THEN (IF options.separator = Unset THEN Str("1.a")
              ELSE IF options.separator = Str("") THEN Str("1a")
              ELSE Undefined)
        ELSE Undefined

\* with the empty separator a record with the keys id = 1 and sk = "a" was
\* submitted under the id "1a"
C15_Witness ==
  /\ Submitted
  /\ DefaultIdPolicy
  /\ options.separator = Str("")
  /\ "sk" \in DOMAIN TheRecord.dynamodb.Keys
  /\ DescriptorOf(bulkCalls[1].body[1])._id = Str("1a")

\* C16: an emitted descriptor carries a version and a versionType exactly when
\* versionField or versionResolver is configured; the version is then a
\* number and the versionType is "external", also when the version is 0.
C16_VersionCoupling ==
  \A i \in 1..Len(Descriptors(acc.actions)) :
    LET d == DescriptorOf(Descriptors(acc.actions)[i])
    IN  /\ "version" \in DOMAIN d <=> VersionConfigured
        /\ "versionType" \in DOMAIN d <=> VersionConfigured
        /\ VersionConfigured =>
             /\ d.version.type = "number"
             /\ d.versionType = Str("external")

\* an INSERT stored with version 0 was submitted with version 0 and
\* versionType "external"
C16_Witness ==
  /\ Submitted
  /\ VersionConfigured
  /\ TheRecord.eventName = "INSERT"
  /\ StoredVersion = WireN(0)
  /\ bulkCalls[1].body[1].index.version = Num(0)
  /\ bulkCalls[1].body[1].index.versionType = Str("external")

\* the parts buildAction resolves before the version can be resolved
EarlierPartsResolve ==
  /\ options.idField = PathList(<< "sk", "id" >>) => "sk" \in DOMAIN TheRecord.dynamodb.Keys
  /\ IsSet(options.typeField) => StoredType # Undefined

\* the version resolves to the string "1"
VersionIsString ==
  /\ StoredVersion = WireS("1")
  /\ IsSet(options.versionField) \/ TheRecord.eventName # "REMOVE"

\* versionField names a field the record does not have
VersionIsMissing == IsSet(options.versionField) /\ StoredVersion = WireNull

\* C17: with a version configured, a record whose version resolves to the
\* string "1" fails with a ValidationError labelled with the version field
\* (or "resolved version"), and a record that lacks the configured
\* versionField fails with a FieldNotFoundError for that field; either way the
\* failure is the record's own and no action is emitted for it.
C17_VersionValidation ==
  (idx = 1 /\ VersionConfigured /\ (VersionIsString \/ VersionIsMissing)) =>
    /\ acc.actions = << >>
    /\ acc.meta = << >>
    /\ failed = << 1 >>
    /\ IsRecordError(raised[1])
    /\ (EarlierPartsResolve /\ VersionIsString) =>
         /\ raised[1].name = "ValidationError"
         /\ raised[1].label = (IF IsSet(options.versionField) THEN "ver"
                                ELSE "resolved version")
    /\ (EarlierPartsResolve /\ VersionIsMissing) =>
         /\ raised[1].name = "FieldNotFoundError"
         /\ raised[1].path = "ver"

\* an invocation ended with the ValidationError of a record whose version
\* field holds the string "1"
C17_Witness ==
  /\ pc = "done"
  /\ IsSet(options.versionField)
  /\ VersionIsString
  /\ outcome.kind = "rejected"
  /\ outcome.error.name = "ValidationError"
  /\ outcome.error.label = "ver"
  /\ bulkCalls = << >>

\* C18 as stated: every descriptor emitted into the batch has a defined
\* document id; a record whose id resolves to no value (from idResolver,
\* idField or the key fields) fails and adds no action.
C18_IdAlwaysDefined ==
  \A i \in 1..Len(Descriptors(acc.actions)) :
    DescriptorOf(Descriptors(acc.actions)[i])._id # Undefined

\* the incoming batch violates the batch schema: a record lacks eventName
InvalidEvent ==
  \E i \in 1..Len(event.Records) : "eventName" \notin DOMAIN event.Records[i]

\* the batch validation of handle() has been passed or has failed
PastValidation == pc \notin {"start", "validate"}

BeforeHookThrew == \E i \in 1..Len(raised) :
                     raised[i].name = "Error" /\ raised[i].thrownBy = "beforeHook"

IsBatchValidationError(e) == e.name = "ValidationError" /\ e.label = "event"

\* C19 as stated: an invocation on a batch that violates the batch schema
\* fails with a ValidationError, with no record mapped, no transformRecordHook
\* or recordErrorHook call and no bulk call; a batch with unknown extra fields
\* does not fail validation.
C19_ValidationGate ==
  /\ InvalidEvent =>
       /\ idx = 0 /\ acc.actions = << >> /\ failed = << >>
       /\ transformCalls = << >> /\ recordErrorHookCalls = << >> /\ bulkCalls = << >>
       /\ pc = "done" =>
            (outcome.kind = "rejected" /\ IsBatchValidationError(outcome.error))
  /\ ~InvalidEvent => \A i \in 1..Len(raised) : ~IsBatchValidationError(raised[i])

\* C19, amended: on a batch that violates the batch schema, validation raises
\* a ValidationError before any record is mapped: no transformRecordHook or
\* recordErrorHook call and no bulk call is ever made. Unless beforeHook,
\* which runs first, has failed, the ValidationError is the only error
\* raised inside handle() and it is the failure of the invocation when no
\* errorHook is configured, and is handed to errorHook otherwise. A batch
\* with unknown extra fields does not fail validation.
C19_ValidationGateThroughCatch ==
  /\ InvalidEvent =>
       /\ idx = 0 /\ acc.actions = << >> /\ failed = << >>
       /\ transformCalls = << >> /\ recordErrorHookCalls = << >> /\ bulkCalls = << >>
       /\ (PastValidation /\ ~BeforeHookThrew) =>
            /\ IsBatchValidationError(raised[1])
            /\ caught = raised[1]
            /\ (pc = "done" /\ ~options.errorHook) => outcome = Rejected(raised[1])
            /\ (pc = "done" /\ options.errorHook) =>
                 /\ errorHookCalls = << << event, Context, raised[1] >> >>
                 /\ outcome.kind = "rejected" => outcome.error # raised[1]
  /\ ~InvalidEvent => \A i \in 1..Len(raised) : ~IsBatchValidationError(raised[i])

\* a batch with fields the schema does not name, at the top level, on a
\* record and inside dynamodb, has passed validation
C19_ExtrasWitness ==
  /\ PastValidation
  /\ ~InvalidEvent
  /\ raised = << >>
  /\ "awsRegion" \in DOMAIN event
  /\ Len(event.Records) > 0
  /\ "eventID" \in DOMAIN event.Records[1]
  /\ "StreamViewType" \in DOMAIN event.Records[1].dynamodb

\* an invocation on a batch whose last record lacks eventName ended with the
\* ValidationError, after a valid first record and without any bulk call
C19_Witness ==
  /\ pc = "done"
  /\ InvalidEvent
  /\ Len(event.Records) = 2
  /\ outcome.kind = "rejected"
  /\ IsBatchValidationError(outcome.error)
  /\ bulkCalls = << >>
  /\ idx = 0

\* C20 as stated: when beforeHook throws, its error is the failure of the
\* invocation and is never handed to errorHook.
C20_BeforeHookUncaught ==
  BeforeHookThrew =>
    /\ \A i \in 1..Len(errorHookCalls) : errorHookCalls[i][3] # raised[1]
    /\ pc = "done" => outcome = Rejected(raised[1])

\* C20, amended: when beforeHook throws, nothing else of the invocation runs
\* and its error is caught by handle(): with an errorHook configured the
\* error is handed to errorHook, once, and the invocation ends with what
\* errorHook returns or throws; with no errorHook the error is the failure of
\* the invocation.
C20_BeforeHookCaught ==
  BeforeHookThrew =>
    /\ caught = raised[1]
    /\ idx = 0 /\ bulkCalls = << >> /\ afterHookCalls = << >>
    /\ \A i \in 1..Len(raised) : ~IsBatchValidationError(raised[i])
    /\ (pc = "done" /\ ~options.errorHook) =>
         (outcome = Rejected(raised[1]) /\ errorHookCalls = << >>)
    /\ (pc = "done" /\ options.errorHook) =>
         /\ errorHookCalls = << << event, Context, raised[1] >> >>
         /\ \/ (outcome.kind = "rejected" /\ outcome.error # raised[1])
            \/ /\ outcome.kind = "resolved"
               /\ hookReturn.hook = "errorHook"
               /\ outcome = Resolved(hookReturn.value)

\* beforeHook threw and the invocation completed with the value errorHook
\* returned for that error
C20_Witness ==
  /\ pc = "done"
  /\ BeforeHookThrew
  /\ Len(errorHookCalls) = 1
  /\ errorHookCalls[1][3] = raised[1]
  /\ outcome.kind = "resolved"

\* C21 as stated: the batch is validated before beforeHook runs, so beforeHook
\* is never called in an invocation whose batch fails validation; beforeHook
\* runs before the first record is mapped, and the batch is assembled before
\* it is submitted.
C21_ValidateThenBeforeHook ==
  /\ InvalidEvent => beforeHookCalls = << >>
  /\ (idx > 0 /\ options.beforeHook) => Len(beforeHookCalls) = 1
  /\ bulkCalls # << >> => idx = Len(event.Records)

\* C21, amended: beforeHook runs first, then the batch is validated, then it
\* is assembled, then it is submitted. beforeHook, when configured, is called
\* exactly once, as the first step, whether or not the batch is valid;
\* validation is decided before any record is mapped; records are mapped only
\* before the first submission, and a submission is made only when every
\* record has been mapped.
C21_BeforeHookThenValidate ==
  /\ [](/\ (options.beforeHook /\ pc # "start") => Len(beforeHookCalls) = 1
        /\ (~options.beforeHook \/ pc = "start") => beforeHookCalls = << >>
        /\ pc \in {"start", "validate"} =>
             (idx = 0 /\ acc.actions = << >> /\ transformCalls = << >> /\ bulkCalls = << >>)
        /\ idx > 0 => ~InvalidEvent
        /\ bulkCalls # << >> => idx = Len(event.Records))
  /\ [][/\ beforeHookCalls' # beforeHookCalls => (pc = "start" /\ raised = << >>)
        /\ idx' # idx => (pc = "build" /\ bulkCalls = << >>)
        /\ bulkCalls' # bulkCalls => (pc = "submit" /\ idx = Len(event.Records))]_vars

\* beforeHook was called on a batch that then failed validation
C21_Witness ==
  /\ pc = "catch"
  /\ InvalidEvent
  /\ Len(beforeHookCalls) = 1
  /\ IsBatchValidationError(caught)

\* the record at position k has an event name buildRequest has no case for
UnknownEventAt(k) ==
  /\ "eventName" \in DOMAIN event.Records[k]
  /\ event.Records[k].eventName \notin {"INSERT", "MODIFY", "REMOVE"}

\* buildAction returns a truthy document for every record: no version field
\* to miss and no transformRecordHook to replace or drop the document
DocumentsAlwaysBuilt == ~IsSet(options.versionField) /\ ~options.transformRecordHook

C23_AsyncHooksAwaited ==
  /\ [](pc \in {"awaitAfter", "awaitError"} => outcome = Pending)
  /\ [][pc = "awaitAfter" =>
          \/ /\ pc' = "done"
             /\ hookReturn'.hook = "afterHook"
             /\ outcome' = Resolved(IF hookReturn'.value = Undefined
                                    THEN esResult ELSE hookReturn'.value)
          \/ /\ pc' = "catch"
             /\ outcome' = Pending
             /\ raised' = Append(raised, caught')
             /\ caught'.name = "Error" /\ caught'.thrownBy = "afterHook"]_vars
  /\ [][pc = "awaitError" =>
          /\ pc' = "done"
          /\ \/ /\ hookReturn'.hook = "errorHook"
                /\ outcome' = Resolved(hookReturn'.value)
             \/ /\ outcome'.kind = "rejected"
                /\ raised' = Append(raised, outcome'.error)
                /\ outcome'.error.name = "Error"
                /\ outcome'.error.thrownBy = "errorHook"]_vars

\* the promise errorHook returned for a failed submission is pending and the
\* invocation has not completed
C23_Witness ==
  /\ pc = "awaitError"
  /\ outcome = Pending
  /\ Len(errorHookCalls) = 1
  /\ errorHookCalls[1][3].name = "ResponseError"

----------------------------------------------------------------------------
(* C24: invocation isolation *)

\* the keys of the records of invocation i, as the ids of its documents
OwnIds(i) == { Str(ToString((i - 1) * PairMaxRecords + k)) : k \in 1..PairMaxRecords }

\* the ids named by the action descriptors of a bulk body
BodyIds(body) ==
  { body[k].index._id : k \in { j \in 1..Len(body) : "index" \in DOMAIN body[j] } }

\* the eventIDs of the records a metadata list speaks of
MetaEventIds(meta) == { meta[k].event.eventID : k \in 1..Len(meta) }

OwnEventIds(i) == { pair.runs[i].event.Records[k].eventID
                    : k \in 1..Len(pair.runs[i].event.Records) }

\* what the records of invocation i alone give
OwnRequest(i) ==
  buildRequest(pair.runs[i].event, options, [actions |-> << >>, meta |-> << >>])

\* C24: when two invocations of one handler interleave, every bulk call of an
\* invocation carries exactly the actions built from its own batch, and
\* afterHook receives its own event and exactly the metadata of its own batch.
C24_InvocationIsolation ==
  \A i \in DOMAIN pair.runs :
    /\ \A c \in 1..Len(pair.runs[i].calls) :
         /\ pair.runs[i].calls[c].body = OwnRequest(i).value.actions
         /\ BodyIds(pair.runs[i].calls[c].body) \subseteq OwnIds(i)
    /\ \A a \in 1..Len(pair.runs[i].afterArgs) :
         /\ pair.runs[i].afterArgs[a][1] = pair.runs[i].event
         /\ pair.runs[i].afterArgs[a][4] = OwnRequest(i).value.meta
         /\ MetaEventIds(pair.runs[i].afterArgs[a][4]) \subseteq OwnEventIds(i)

\* both invocations have submitted while the other was suspended, and the
\* first has reached afterHook while the second retries
C24_Witness ==
  /\ DOMAIN pair.runs = 1..2
  /\ pair.runs[1].pc = "awaitAfter"
  /\ Len(pair.runs[1].afterArgs) = 1
  /\ Len(pair.runs[1].afterArgs[1][4]) = 2
  /\ pair.runs[2].pc = "inflight"
  /\ Len(pair.runs[2].calls) = 2
  /\ Len(pair.runs[2].calls[1].body) = 2

----------------------------------------------------------------------------
(* C25: the argument of the bulk call *)

\* C25: every bulk call gets one argument, made of the configured bulk
\* options and a body that is the assembled action list; a body among the
\* configured options never replaces it, and without bulk options the
\* argument is the body alone.
C25_SubmissionArguments ==
  \A c \in 1..Len(bulkCalls) :
    /\ bulkCalls[c].body = acc.actions
    /\ IF IsSet(options.bulk)
       THEN /\ DOMAIN bulkCalls[c] = DOMAIN options.bulk \cup {"body"}
            /\ \A k \in DOMAIN options.bulk \ {"body"} : bulkCalls[c][k] = options.bulk[k]
       ELSE bulkCalls[c] = [body |-> acc.actions]

\* a retried submission under bulk options that carry a body of their own
C25_Witness ==
  /\ Len(bulkCalls) = 2
  /\ IsSet(options.bulk)
  /\ "body" \in DOMAIN options.bulk
  /\ bulkCalls[2].refresh
  /\ bulkCalls[2].body # options.bulk.body

----------------------------------------------------------------------------
(* C26: transformRecordHook replaces the document *)

\* C26: a configured transformRecordHook is called once for a decoded record,
\* with the NewImage after the pickFields projection and the OldImage; the
\* value it returns is the document that follows the upsert descriptor, is
\* recorded in the metadata entry, and is what idResolver and versionResolver
\* read.  (one record per invocation here)
C26_TransformReplacesDocument ==
  options.transformRecordHook /\ Len(event.Records) = 1 =>
    /\ Len(transformCalls) <= 1
    /\ Len(acc.meta) = 1 => Len(transformCalls) = 1
    /\ \A k \in 1..Len(transformCalls) :
         transformCalls[k] = << PickedDoc(parseRecord(event.Records[k]), options),
                                parseRecord(event.Records[k]).OldImage >>
    /\ \A j \in 1..Len(acc.meta) :
         /\ acc.meta[j].document = Transformed(transformCalls[j][1])
         /\ acc.meta[j].document # parseRecord(event.Records[j]).NewImage
         /\ "index" \in DOMAIN acc.meta[j].action =>
              acc.actions = << acc.meta[j].action, Transformed(transformCalls[j][1]) >>
         /\ IsSet(options.idResolver) =>
              DescriptorOf(acc.meta[j].action)._id = Transformed(transformCalls[j][1]).fields.sk
         /\ IsSet(options.versionResolver) =>
              DescriptorOf(acc.meta[j].action).version.n
                = Transformed(transformCalls[j][1]).fields.ver.n
                  + (IF "delete" \in DOMAIN acc.meta[j].action THEN 1 ELSE 0)

\* an upsert whose document, id and version all come from the hook, which was
\* given a projected image
C26_Witness ==
  /\ options.transformRecordHook
  /\ IsSet(options.pickFields)
  /\ IsSet(options.idResolver)
  /\ IsSet(options.versionResolver)
  /\ Len(bulkCalls) = 1
  /\ Len(bulkCalls[1].body) = 2
  /\ bulkCalls[1].body[1].index._id = Str("h")
  /\ bulkCalls[1].body[1].index.version = Num(3)
  /\ bulkCalls[1].body[2].fields.sk = Str("h")
  /\ "a" \in DOMAIN bulkCalls[1].body[2].fields
  /\ "e" \notin DOMAIN bulkCalls[1].body[2].fields

----------------------------------------------------------------------------
(* C27: the pickFields projection *)

\* the listed paths, as a set
ListedPaths ==
  IF "list" \in DOMAIN options.pickFields
  THEN { options.pickFields.list[i] : i \in 1..Len(options.pickFields.list) }
  ELSE { options.pickFields.path }

\* the document of the one record, where no hook replaces it
HasPlainDocument ==
  /\ ~options.transformRecordHook
  /\ Len(event.Records) = 1
  /\ Len(acc.meta) = 1

\* every field of doc is a listed field of image with its value, or an object
\* whose fields are listed by their dotted paths (two levels)
OnlyListed(doc, image, listed) ==
  \A f \in DOMAIN doc.fields :
    \/ f \in listed /\ f \in DOMAIN image.fields /\ doc.fields[f] = image.fields[f]
    \/ /\ doc.fields[f].type = "object"
       /\ f \in DOMAIN image.fields
       /\ image.fields[f].type = "object"
       /\ \A g \in DOMAIN doc.fields[f].fields :
            /\ (f \o "." \o g) \in listed
            /\ g \in DOMAIN image.fields[f].fields
            /\ doc.fields[f].fields[g] = image.fields[f].fields[g]

ExampleImage ==
  Obj([id |-> Num(1), a |-> Num(1), b |-> Obj([c |-> Num(2), d |-> Num(3)]), e |-> Num(4)])

ExampleProjection == Obj([a |-> Num(1), b |-> Obj([c |-> Num(2)])])

\* C27 as stated: with pickFields the document is the projection of NewImage
\* onto the listed paths, each dotted path selecting the nested field.
C27_DottedPathSelectsNested ==
  HasPlainDocument /\ IsSet(options.pickFields) =>
    /\ \A p \in ListedPaths :
         baseGet(acc.meta[1].document, PathSegments(p))
           = baseGet(parseRecord(event.Records[1]).NewImage, PathSegments(p))
    /\ OnlyListed(acc.meta[1].document, parseRecord(event.Records[1]).NewImage,
                  ListedPaths)

\* C27: with pickFields the document is the projection of NewImage onto the
\* listed paths: a listed path that names a field of NewImage itself selects
\* that field, any other dotted path selects the nested field and the result
\* mirrors the nesting; unlisted fields are absent, missing paths add nothing;
\* [a, b.c] on {a: 1, b: {c: 2, d: 3}, e: 4} gives {a: 1, b: {c: 2}}; without
\* pickFields the document is the whole NewImage.
C27_PickFieldsProjection ==
  HasPlainDocument =>
    IF IsSet(options.pickFields)
    THEN /\ \A p \in ListedPaths :
              baseGet(acc.meta[1].document,
                      castPath(p, parseRecord(event.Records[1]).NewImage))
                = baseGet(parseRecord(event.Records[1]).NewImage,
                          castPath(p, parseRecord(event.Records[1]).NewImage))
         /\ OnlyListed(acc.meta[1].document, parseRecord(event.Records[1]).NewImage,
                       ListedPaths)
         /\ (/\ options.pickFields = PathList(<< "a", "b.c" >>)
             /\ parseRecord(event.Records[1]).NewImage = ExampleImage)
              => acc.meta[1].document = ExampleProjection
    ELSE acc.meta[1].document = parseRecord(event.Records[1]).NewImage

\* the projection of the example is submitted after its descriptor
C27_Witness ==
  /\ ~options.transformRecordHook
  /\ options.pickFields = PathList(<< "a", "b.c" >>)
  /\ Len(bulkCalls) = 1
  /\ Len(bulkCalls[1].body) = 2
  /\ parseRecord(event.Records[1]).NewImage = ExampleImage
  /\ bulkCalls[1].body[2] = ExampleProjection

----------------------------------------------------------------------------
(* C28: the index name *)

\* the paths of indexField, as a sequence
IndexPaths ==
  IF "list" \in DOMAIN options.indexField
  THEN options.indexField.list
  ELSE << options.indexField.path >>

IndexFromField == ~IsSet(options.index) /\ IsSet(options.indexField)

MissingIndexPaths ==
  { IndexPaths[i] : i \in { j \in 1..Len(IndexPaths) :
                              ~getField(parseRecord(event.Records[1]), IndexPaths[j]).ok } }

\* the text of the value found for path i of indexField
IndexPart(i) == JsToString(getField(parseRecord(event.Records[1]), IndexPaths[i]).value)

ConfiguredPrefix == IF IsSet(options.indexPrefix) THEN options.indexPrefix.s ELSE ""

ConfiguredSeparator == IF IsSet(options.separator) THEN options.separator.s ELSE "."

\* C28: the index name of an emitted descriptor is the literal index when one
\* is configured, and otherwise the prefix (default empty) followed by the
\* value assembled from indexField with the separator: [x, y] on keys
\* {x: a, y: b} gives a.b by default and ab with the empty separator; a record
\* with an indexField path found in none of its images fails with
\* FieldNotFoundError and emits nothing.
C28_IndexName ==
  Len(event.Records) = 1 =>
    /\ \A j \in 1..Len(acc.meta) :
         /\ IsSet(options.index) =>
              DescriptorOf(acc.meta[j].action)._index = options.index
         /\ IndexFromField /\ Len(IndexPaths) = 1 =>
              DescriptorOf(acc.meta[j].action)._index
                = Str(ConfiguredPrefix \o IndexPart(1))
         /\ IndexFromField /\ Len(IndexPaths) = 2 =>
              DescriptorOf(acc.meta[j].action)._index
                = Str(ConfiguredPrefix \o IndexPart(1) \o ConfiguredSeparator \o IndexPart(2))
         /\ (/\ IndexFromField
             /\ options.indexField = PathList(<< "x", "y" >>)
             /\ ~IsSet(options.indexPrefix)) =>
              DescriptorOf(acc.meta[j].action)._index
                = (IF IsSet(options.separator) THEN Str("ab") ELSE Str("a.b"))
    /\ (IndexFromField /\ MissingIndexPaths # {}) =>
         /\ Len(acc.meta) = 0
         /\ bulkCalls = << >>
         /\ pc \notin {"start", "validate", "build"} =>
              /\ caught.name = "FieldNotFoundError"
              /\ caught.path \in MissingIndexPaths
              /\ caught.record = parseRecord(event.Records[1])
              /\ pc = "done" => outcome = Rejected(caught)

\* a prefixed index name assembled from two key fields with the empty separator
C28_Witness ==
  /\ IndexFromField
  /\ options.indexField = PathList(<< "x", "y" >>)
  /\ options.indexPrefix = Str("p-")
  /\ options.separator = Str("")
  /\ Len(bulkCalls) = 1
  /\ DescriptorOf(bulkCalls[1].body[1])._index = Str("p-ab")

----------------------------------------------------------------------------
(* C30: the search order of getField *)

\* the marshalled image of the record holds field v
Holds(image) == "v" \in DOMAIN event.Records[1].dynamodb[image]

HeldBy(image) == unmarshall(event.Records[1].dynamodb[image].v)

\* C30: getField returns the value of the path in Keys when it is defined
\* there, else the one in NewImage, else the one in OldImage, null counting as
\* defined; it fails with FieldNotFoundError, carrying the record and the
\* path, exactly when the path is defined in none of the three.  (observed
\* through idField: 'v', whose value becomes the _id)
C30_GetFieldSearchOrder ==
  options.idField = SinglePath("v") /\ Len(event.Records) = 1 =>
    /\ \A j \in 1..Len(acc.meta) :
         DescriptorOf(acc.meta[j].action)._id
           = (IF Holds("Keys") THEN HeldBy("Keys")
              ELSE IF Holds("NewImage") THEN HeldBy("NewImage")
              ELSE HeldBy("OldImage"))
    /\ pc \notin {"start", "validate", "build"} =>
         (caught.name = "FieldNotFoundError"
            <=> ~(Holds("Keys") \/ Holds("NewImage") \/ Holds("OldImage")))
    /\ caught.name = "FieldNotFoundError" =>
         /\ caught.path = "v"
         /\ caught.record = parseRecord(event.Records[1])
         /\ Len(acc.meta) = 0

\* a null in NewImage is returned although OldImage holds a string
C30_Witness ==
  /\ options.idField = SinglePath("v")
  /\ ~Holds("Keys")
  /\ Holds("NewImage")
  /\ HeldBy("NewImage") = Null
  /\ Holds("OldImage")
  /\ HeldBy("OldImage") = Str("o")
  /\ Len(bulkCalls) = 1
  /\ bulkCalls[1].body[1].index._id = Null

----------------------------------------------------------------------------
(* C29: options are validated when the handler is constructed *)

\* C29: options that break the configuration schema, the missing options
\* included, make the factory throw a ValidationError that carries the message
\* of every violation; no handler is returned, so no invocation ever starts,
\* and neither errorHook nor recordErrorHook is called with the error.
C29_ConstructionValidation ==
  /\ Len(HandlerOptionsViolations(options)) > 0 =>
       /\ pc \in {"construct", "unbuilt"}
       /\ errorHookCalls = << >>
       /\ recordErrorHookCalls = << >>
       /\ beforeHookCalls = << >>
       /\ bulkCalls = << >>
       /\ caught = NoError
       /\ outcome = Pending
  /\ pc = "unbuilt" =>
       /\ Len(HandlerOptionsViolations(options)) > 0
       /\ Len(raised) = 1
       /\ raised[1].name = "ValidationError"
       /\ raised[1].messages = HandlerOptionsViolations(options)
  /\ pc \notin {"construct", "unbuilt"} => Len(HandlerOptionsViolations(options)) = 0

\* options that carry both hooks and break several rules at once
C29_Witness ==
  /\ pc = "unbuilt"
  /\ options # NoOptions
  /\ options.errorHook
  /\ options.recordErrorHook
  /\ Len(raised) = 1
  /\ Len(raised[1].messages) = 4
  /\ errorHookCalls = << >>

----------------------------------------------------------------------------
(* C31: assembleField *)

\* the paths of idField, as a sequence
IdPaths ==
  IF "list" \in DOMAIN options.idField
  THEN options.idField.list
  ELSE << options.idField.path >>

\* the positions of the paths of idField that none of the images holds
MissingIdPositions ==
  { i \in 1..Len(IdPaths) : ~getField(parseRecord(event.Records[1]), IdPaths[i]).ok }

IdPart(i) == JoinElement(getField(parseRecord(event.Records[1]), IdPaths[i]).value)

\* C31: for a list of paths assembleField joins the getField values in list
\* order with the separator, which may be empty, and fails with
\* FieldNotFoundError for the first path that resolves to nothing; for a single
\* path it returns the value itself, a number staying a number.  (observed
\* through idField, whose assembled value becomes the _id)
C31_AssembleField ==
  IsSet(options.idField) /\ ~IsSet(options.idResolver) /\ Len(event.Records) = 1 =>
    /\ \A j \in 1..Len(acc.meta) :
         /\ MissingIdPositions = {}
         /\ "path" \in DOMAIN options.idField =>
              DescriptorOf(acc.meta[j].action)._id
                = getField(parseRecord(event.Records[1]), options.idField.path).value
         /\ options.idField = SinglePath("id") =>
              DescriptorOf(acc.meta[j].action)._id = Num(1)
         /\ ("list" \in DOMAIN options.idField /\ Len(IdPaths) = 2) =>
              DescriptorOf(acc.meta[j].action)._id
                = Str(IdPart(1) \o ConfiguredSeparator \o IdPart(2))
    /\ MissingIdPositions # {} =>
         /\ Len(acc.meta) = 0
         /\ pc \notin {"start", "validate", "build"} =>
              /\ caught.name = "FieldNotFoundError"
              /\ \E i \in MissingIdPositions :
                   /\ caught.path = IdPaths[i]
                   /\ \A k \in MissingIdPositions : i <= k

\* a numeric id from a single path
C31_Witness ==
  /\ options.idField = SinglePath("id")
  /\ Len(bulkCalls) = 1
  /\ DescriptorOf(bulkCalls[1].body[1])._id = Num(1)
  /\ DescriptorOf(bulkCalls[1].body[1])._id # Str("1")

----------------------------------------------------------------------------
(* C32: decoding defaults *)

\* the decoded images are documents, and empty ones where the record has none
DecodedWithDefaults(rawImages, decoded) ==
  /\ {"NewImage", "OldImage"} \subseteq DOMAIN decoded
  /\ decoded.NewImage.type = "object"
  /\ decoded.OldImage.type = "object"
  /\ "NewImage" \notin DOMAIN rawImages => decoded.NewImage = Obj(EmptyMap)
  /\ "OldImage" \notin DOMAIN rawImages => decoded.OldImage = Obj(EmptyMap)

\* C32: the decoded record always has NewImage and OldImage; an image the raw
\* record lacks decodes to the empty document, so looking a field up in it
\* ends in "not found" and never in an access error, and the metadata event of
\* an INSERT carries OldImage = {}.
C32_DecodingDefaults ==
  Len(event.Records) = 1 =>
    /\ \A j \in 1..Len(acc.meta) :
         /\ DecodedWithDefaults(event.Records[1].dynamodb, acc.meta[j].event.dynamodb)
         /\ event.Records[1].eventName = "INSERT" =>
              acc.meta[j].event.dynamodb.OldImage = Obj(EmptyMap)
    /\ \A k \in 1..Len(transformCalls) :
         /\ transformCalls[k][2].type = "object"
         /\ "OldImage" \notin DOMAIN event.Records[1].dynamodb =>
              transformCalls[k][2] = Obj(EmptyMap)
    /\ caught.name = "FieldNotFoundError" =>
         DecodedWithDefaults(event.Records[1].dynamodb, caught.record)
    /\ (~IsSet(options.idResolver) /\ ~IsSet(options.versionResolver)) =>
         caught.name # "TypeError"

\* an INSERT has been emitted whose metadata event has the empty OldImage
C32_Witness ==
  /\ Len(event.Records) = 1
  /\ event.Records[1].eventName = "INSERT"
  /\ "OldImage" \notin DOMAIN event.Records[1].dynamodb
  /\ Len(bulkCalls) = 1
  /\ Len(acc.meta) = 1
  /\ acc.meta[1].event.dynamodb.OldImage = Obj(EmptyMap)
  /\ acc.meta[1].event.dynamodb.NewImage # Obj(EmptyMap)

----------------------------------------------------------------------------
(* C33: a skipped record and the resolution of its descriptor *)

\* transformRecordHook returned a falsy document for record k
FalsyDocument(k) ==
  /\ k <= Len(transformReturns)
  /\ transformReturns[k].ok
  /\ ~Truthy(transformReturns[k].value)

\* record k is among the records that failed
HasFailed(k) == \E f \in 1..Len(failed) : failed[f] = k

\* C33 as stated: a record for which transformRecordHook returned a falsy
\* document is skipped without any failure, whatever field the configuration
\* names is absent from it: no error is raised for it, recordErrorHook is not
\* called for it and it never aborts the batch.
C33_SkipTakesPrecedence ==
  \A k \in 1..Len(event.Records) : FalsyDocument(k) => ~HasFailed(k)

----------------------------------------------------------------------------
(* C34: every invocation terminates *)

ConfiguredRetries ==
  IF "retries" \in DOMAIN options.retryOptions
  THEN options.retryOptions.retries
  ELSE DEFAULT_RETRY_COUNT

\* the invocation has completed with a result or with an error
Terminal ==
  /\ pc = "done"
  /\ outcome.kind \in {"resolved", "rejected"}
  /\ inflight = 0

\* C34: when every bulk call and every hook settles, an invocation reaches a
\* terminal outcome, a result or a raised error, and keeps it; it makes at
\* most retries + 1 submissions and does not stay submitting forever.
C34_Terminates ==
  /\ <>[]Terminal
  /\ [](Len(bulkCalls) <= ConfiguredRetries + 1)

\* an invocation that has failed after using up all its retries
C34_Witness ==
  /\ Terminal
  /\ ConfiguredRetries >= 1
  /\ Len(bulkCalls) = ConfiguredRetries + 1
  /\ outcome.kind = "rejected"
  /\ outcome.error.name = "ResponseError"

----------------------------------------------------------------------------
(* afterHook and the submission *)

\* the last bulk call of the invocation resolved; the calls before it failed
\* and were retried
SubmissionSucceeded ==
  /\ Len(bulkCalls) >= 1
  /\ esResult # Undefined
  /\ inflight = 0
  /\ failures = Len(bulkCalls) - 1
  /\ failures <= ConfiguredRetries

\* afterHook was called once, with the result of the submission and the metadata
AfterHookCalledOnSuccess ==
  /\ options.afterHook
  /\ SubmissionSucceeded
  /\ Len(acc.actions) > 0
  /\ afterHookCalls = << << event, Context, esResult, acc.meta >> >>

\* the only error the try block has thrown is the one afterHook itself raised
NothingThrownBeforeAfterHook ==
  caught # NoError => (caught.name = "Error" /\ caught.thrownBy = "afterHook")

\* C35 as stated: afterHook is invoked at most once, only after a bulk call of
\* the invocation has succeeded, never for an empty batch, never after
\* retries are exhausted, and never in an invocation in which validation or
\* the mapping of a record has failed.
C35_NeverAfterMappingFailure ==
  /\ Len(afterHookCalls) <= 1
  /\ Len(afterHookCalls) = 1 =>
       /\ AfterHookCalledOnSuccess
       /\ NothingThrownBeforeAfterHook
       /\ failed = << >>

\* C35: afterHook is invoked at most once, only after a bulk call of the
\* invocation has succeeded, never for an empty batch, never after retries
\* are exhausted, and never after a validation failure or a mapping failure
\* that ended the batch: the mapping failures before it are the ones
\* recordErrorHook has absorbed.
C35_AfterHookOnlyAfterSuccess ==
  /\ Len(afterHookCalls) <= 1
  /\ Len(afterHookCalls) = 1 =>
       /\ AfterHookCalledOnSuccess
       /\ NothingThrownBeforeAfterHook
       /\ failed # << >> =>
            /\ options.recordErrorHook
            /\ Len(recordErrorHookCalls) = Len(failed)

\* afterHook has run after a retried submission of a batch in which one
\* record failed and another was mapped
C35_Witness ==
  /\ pc = "done"
  /\ Len(afterHookCalls) = 1
  /\ failures >= 1
  /\ failed # << >>
  /\ outcome.kind = "resolved"

----------------------------------------------------------------------------
(* a failing afterHook *)

\* the error in the catch clause is the one afterHook raised or rejected with
AfterHookFailed ==
  /\ caught # NoError
  /\ caught.name = "Error"
  /\ caught.thrownBy = "afterHook"

\* C36: an error of afterHook goes the way of a batch failure. With errorHook
\* configured the hook is called once with that error and the invocation
\* completes as the hook does: with its return value, or with the error the
\* hook itself raised. Without errorHook the invocation fails with the error
\* of afterHook. The bulk call that succeeded is the last one made.
C36_AfterHookFailureRouted ==
  AfterHookFailed =>
    /\ SubmissionSucceeded
    /\ Len(afterHookCalls) = 1
    /\ pc \in {"catch", "awaitError", "done"}
    /\ pc # "catch" =>
         IF options.errorHook
         THEN errorHookCalls = << << event, Context, caught >> >>
         ELSE errorHookCalls = << >>
    /\ pc = "done" =>
         IF options.errorHook
         THEN \/ /\ hookReturn.hook = "errorHook"
                 /\ outcome = Resolved(hookReturn.value)
              \/ /\ outcome.kind = "rejected"
                 /\ outcome.error.thrownBy = "errorHook"
         ELSE outcome = Rejected(caught)

\* afterHook has failed after a retried submission and errorHook has returned
C36_Witness ==
  /\ AfterHookFailed
  /\ pc = "done"
  /\ options.errorHook
  /\ Len(bulkCalls) = 2
  /\ outcome = Resolved(Str("recovered"))

----------------------------------------------------------------------------
(* delivery to the callback *)

\* the chain of promises behind the callback has settled
ChainSettled == wrapper.chain \in {"fulfilled", "caught"}

\* the one call the callback is to receive for the outcome of handle()
ExpectedCallbackCall ==
  IF outcome.kind = "resolved"
  THEN << Null, outcome.value >>
  ELSE << outcome.error >>

\* C37: called with a callback, the exported function returns no promise and
\* calls the callback exactly once, with (null, result) when the invocation
\* succeeds and with (error) when it fails; called without one, it returns the
\* promise of the invocation and calls no callback.
C37_CallbackExactlyOnce ==
  /\ wrapper.mode = "callback" =>
       /\ wrapper.returned = "undefined"
       /\ Len(wrapper.callbackCalls) <= 1
       /\ ChainSettled => wrapper.callbackCalls = << ExpectedCallbackCall >>
  /\ wrapper.mode = "promise" =>
       /\ wrapper.returned = "promise"
       /\ wrapper.callbackCalls = << >>

----------------------------------------------------------------------------
(* REMOVE records and their delete action *)

\* the one record of the batch is a REMOVE record and the fold has passed it
RemoveProcessed ==
  /\ Len(event.Records) = 1
  /\ event.Records[1].eventName = "REMOVE"
  /\ idx = 1

\* the document buildDoc produced for the record is truthy: the value the
\* hook returned, or without a hook the decoded NewImage or its projection
DocumentTruthy ==
  IF options.transformRecordHook
  THEN /\ Len(transformReturns) = 1
       /\ transformReturns[1].ok
       /\ Truthy(transformReturns[1].value)
  ELSE Truthy(PickedDoc(parseRecord(event.Records[1]), options))

\* the hook was called for the record and returned a falsy value
HookReturnedFalsy ==
  /\ options.transformRecordHook
  /\ Len(transformReturns) = 1
  /\ transformReturns[1].ok
  /\ ~Truthy(transformReturns[1].value)

\* the batch holds one delete action, with its metadata entry
DeleteEmitted ==
  /\ Len(acc.actions) = 1
  /\ DOMAIN acc.actions[1] = {"delete"}
  /\ Len(acc.meta) = 1
  /\ acc.meta[1].action = acc.actions[1]

NothingEmitted == acc.actions = << >> /\ acc.meta = << >>

\* C38 as stated: for a REMOVE record the delete action is emitted exactly
\* when the document is truthy; without transformRecordHook the document is
\* truthy and the delete is emitted; when the hook returns a falsy value
\* neither a delete action nor a metadata entry is emitted.
C38_DeleteIffTruthy ==
  RemoveProcessed =>
    /\ DeleteEmitted <=> DocumentTruthy
    /\ ~options.transformRecordHook => (DocumentTruthy /\ DeleteEmitted)
    /\ HookReturnedFalsy => NothingEmitted

\* C38: for a REMOVE record the delete action is emitted exactly when the
\* document is truthy and the action descriptor has been resolved without a
\* failure; without transformRecordHook the document is truthy, so the delete
\* is emitted whenever the descriptor resolves; when the hook returns a falsy
\* value neither a delete action nor a metadata entry is emitted.
C38_DeleteIffTruthyAndResolved ==
  RemoveProcessed =>
    /\ DeleteEmitted <=> (DocumentTruthy /\ failed = << >>)
    /\ ~DeleteEmitted => NothingEmitted
    /\ ~options.transformRecordHook =>
         /\ DocumentTruthy
         /\ failed = << >> => DeleteEmitted
    /\ HookReturnedFalsy => NothingEmitted

\* the delete of a REMOVE record whose document is the projection of the
\* empty NewImage has been submitted
C38_Witness ==
  /\ RemoveProcessed
  /\ ~options.transformRecordHook
  /\ options.pickFields # Unset
  /\ DeleteEmitted
  /\ pc = "done"

----------------------------------------------------------------------------
(* the incoming batch *)

\* C39: no step of an invocation changes the incoming batch or a record of
\* it: the decoded images, the incremented version of a delete and the
\* metadata events are values of their own.
C39_InputUnchanged == [][event' = event]_vars

\* a REMOVE record has been mapped to a delete with an incremented version and
\* a metadata event with decoded images, and the record still holds its
\* attributes in wire format
C39_Witness ==
  /\ RemoveProcessed
  /\ pc = "done"
  /\ DeleteEmitted
  /\ "version" \in DOMAIN acc.actions[1].delete
  /\ acc.meta[1].event.dynamodb.Keys = parseRecord(event.Records[1]).Keys
  /\ acc.meta[1].event.dynamodb.NewImage = Obj(EmptyMap)
  /\ event.Records[1].dynamodb.Keys = [id |-> WireN(1)]
  /\ "NewImage" \notin DOMAIN event.Records[1].dynamodb

====
